---------------------------- MODULE Spec2Model ----------------------------
(***************************************************************************)
(* A model of the diarkis replicated filesystem: the local storage engine  *)
(* and the kernel calls it issues, the Raft state machine callbacks        *)
(* (on_apply, on_leader_start, on_leader_stop), the leader-only submit     *)
(* path and its closure, the RPC connection handler, and the per-path      *)
(* FileLocker of the Storage class.                                        *)
(*                                                                         *)
(* A path string is modelled as the sequence of its '/'-separated          *)
(* components: "d/f" is <<"d", "f">>, "../data1/g" is                       *)
(* <<"..", "data1", "g">>, the empty string is <<>>, and a leading '/'     *)
(* shows as a first component "".  File contents are sequences of bytes,   *)
(* each byte written as a one-character string.                            *)
(***************************************************************************)
EXTENDS Integers, Sequences, FiniteSets, TLC

VARIABLES
    \* ---- replication: the Raft log and the replicas' host filesystems
    log,          \* committed entries, in log order
    applied,      \* applied[r]: number of log entries replica r has applied
    fs,           \* fs[r]: the filesystem of the host of replica r
    results,      \* results[r]: errno_to_status of each entry r has applied
    now,          \* wall clock, read by the kernel to stamp st_mtime
    rd,           \* the last local read served: who, what, and its answer
    \* ---- the submit path of one node (RaftFilesystemService)
    is_leader_,   \* std::atomic<bool> is_leader_
    leader_term_, \* std::atomic<int64_t> leader_term_
    raftTerm,     \* the term the Raft library is in
    raftLeader,   \* node_->leader_id(): a node, or NoPeer
    cbq,          \* leadership callbacks the library has queued for the FSM thread
    fsm,          \* the FSM thread: idle, or between the two stores of on_leader_start
    tasks,        \* tasks handed to node_->apply and not yet completed
    closure,      \* closure[c]: the FSOperationClosure of caller c
    spc,          \* spc[c]: where caller c is in submit_operation
    sop,          \* sop[c]: the operation caller c submits
    sret,         \* sret[c]: what submit_operation returned to caller c
    \* ---- the RPC connection handler (RpcServer::handle_connection)
    inbox,        \* request frames the peer has sent and the handler not read
    hpc,          \* where the handler is
    cur,          \* the frame being processed
    nread,        \* number of request frames completely received
    outbox,       \* response frames sent, in order
    calls,        \* what the connection thread called for each request
    smLeader,     \* StateMachine::is_leader_ of the node serving the connection
    \* ---- the FileLocker of a Storage and the threads using it
    locks_,       \* FileLocker::locks_: path -> LockState, absent paths unmapped
    tpc,          \* tpc[t]: where thread t is in its Storage operation
    top,          \* top[t]: the Storage operation thread t runs
    held,         \* held[t]: the locks thread t holds (path, mode), for the claims
    \* ---- a Storage used by one thread (Storage of storage.cc)
    sfs,          \* the filesystem of the host of the Storage
    scall,        \* the last Storage call: what was asked, what it returned and did
    ncalls,       \* number of Storage calls made
    wa,           \* the content a run of write_file / append_file on one path built
    \* ---- the bytes of one log entry, from serialize to on_apply
    wire,         \* the operation, its encoding, what deserialize and apply made of it
    \* ---- the snapshot the Raft library keeps
    snap,         \* the snapshot directory, and what the last save and load did
    \* ---- the server process: TcpServer, its threads, and shutdown_server
    should_stop_,        \* std::atomic<bool> should_stop_
    server_fd_,          \* the listening socket: open or closed
    accept_thread_,      \* the accept thread: loop, exited or joined
    connection_threads_, \* connection_threads_[t]: where connection thread t is
    connected_,          \* connected_[t]: TcpConnection::connected_ of t's connection
    raft_node_,          \* StateMachine::raft_node_: up, or down after shutdown
    proposals,           \* threads whose task the Raft node holds uncompleted
    mainpc,              \* where the main thread is in shutdown_server
    \* ---- recorded for the claims about the submit path
    checked,      \* checked[c]: between the check and node_->apply of caller c,
                  \* the term of the on_leader_start whose store of is_leader_
                  \* the check read; else -1
    \* ---- one FSOperationClosure per caller, its waiter and the library
    hcl,          \* hcl[c]: the closure: done, result_status, calls of Run so far
    hwait,        \* hwait[c]: where the submitting thread is around done->wait()
    hlib,         \* hlib[c]: where the library and on_apply are with the task
    hret,         \* hret[c]: the result_status the submitting thread read
    \* ---- the TcpConnection objects of a server
    tc,           \* tc[k]: socket_fd_ and connected_ of connection k, where its
                  \* handler is, and how often its descriptor was closed
    \* ---- the filesystem Watcher
    wd_to_path,      \* watch descriptor -> watched directory
    path_to_wd,      \* watched directory -> watch descriptor
    pending_moves,   \* cookie -> the IN_MOVED_FROM waiting for its IN_MOVED_TO
    watch_map_mutex, \* TRUE while the watch thread holds watch_map_mutex
    wpc,             \* where the watch thread is
    wev,             \* the inotify event handleEvent was called with
    delivered        \* the Event the callback was last called with

replVars   == <<log, applied, fs, results, now, rd>>
submitVars == <<is_leader_, leader_term_, raftTerm, raftLeader, cbq, fsm, tasks,
                closure, spc, sop, sret>>
rpcVars    == <<inbox, hpc, cur, nread, outbox, calls, smLeader>>
lockVars   == <<locks_, tpc, top, held>>
storeVars  == <<sfs, scall, ncalls, wa>>
codecVars  == <<wire>>
snapVars   == <<snap>>
shutVars   == <<should_stop_, server_fd_, accept_thread_, connection_threads_,
                connected_, raft_node_, proposals, mainpc>>
checkVars  == <<checked>>
baseVars   == <<storeVars, codecVars, snapVars, shutVars>>
hsVars     == <<hcl, hwait, hlib, hret>>
sockVars   == <<tc>>
watchVars  == <<wd_to_path, path_to_wd, pending_moves, watch_map_mutex, wpc, wev,
                delivered>>
lateVars   == <<hsVars, sockVars, watchVars>>
restVars   == <<checkVars, lateVars>>
moreVars   == <<baseVars, restVars>>
vars       == <<replVars, submitVars, rpcVars, lockVars, moreVars>>

---------------------------------------------------------------------------
(* Bounds of the model *)

\* longest log the model commits
MaxLog == 3
\* last value of the wall clock
MaxClock == 1
\* last term the Raft library reaches
MaxTerm == 2

---------------------------------------------------------------------------
(* Paths and the kernel's view of a filesystem *)

Replicas == {"r1", "r2"}

\* --data_path of each node of the demo cluster: ./data1, ./data2
BaseName == [r \in Replicas |-> IF r = "r1" THEN "data1" ELSE "data2"]

\* base_path_ of the storage engine of replica r, as an absolute path
base_path_(r) == <<BaseName[r]>>

FileNode(bytes, t) == [kind |-> "file", data |-> bytes, mtime |-> t]
DirNode(t)         == [kind |-> "dir", data |-> <<>>, mtime |-> t]

\* The host after LocalStorageEngine::initialize: the base directory exists
\* and is empty
FreshFs(r) == (<<>> :> DirNode(0)) @@ (base_path_(r) :> DirNode(0))

Exists(f, p) == p \in DOMAIN f
IsDir(f, p)  == p \in DOMAIN f /\ f[p].kind = "dir"
IsFile(f, p) == p \in DOMAIN f /\ f[p].kind = "file"

Parent(p) == IF p = <<>> THEN <<>> ELSE SubSeq(p, 1, Len(p) - 1)

IsPrefix(p, q) == Len(p) <= Len(q) /\ SubSeq(q, 1, Len(p)) = p

Children(f, p) == {q \in DOMAIN f : Len(q) = Len(p) + 1 /\ IsPrefix(p, q)}

\* Components the model writes in short: one of 4096 bytes, one of 4097
\* bytes, and one that holds a NUL byte
Long4096 == "<4096 bytes>"
Long4097 == "<4097 bytes>"
NulName  == "a<NUL>b"

\* size() of a component
CompLen(c) ==
    CASE c = Long4096 -> 4096
      [] c = Long4097 -> 4097
      [] c = NulName  -> 3
      [] OTHER        -> Len(c)

\* Kernel path walk from directory `at` over the components `comps`: every
\* component is looked up in an existing directory; "" and "." stay, ".."
\* goes to the parent; a component longer than the kernel's name limit is
\* refused.  The last component may name something that does not exist.
RECURSIVE Resolve(_, _, _)
Resolve(f, at, comps) ==
    IF comps = <<>> THEN [err |-> "OK", path |-> at]
    ELSE IF ~Exists(f, at) THEN [err |-> "ENOENT", path |-> at]
    ELSE IF ~IsDir(f, at) THEN [err |-> "ENOTDIR", path |-> at]
    ELSE LET c == Head(comps) IN
         IF c \in {"", "."} THEN Resolve(f, at, Tail(comps))
         ELSE IF c = ".." THEN Resolve(f, Parent(at), Tail(comps))
         ELSE IF c \in {Long4096, Long4097}
              THEN [err |-> "ENAMETOOLONG", path |-> at]
         ELSE Resolve(f, Append(at, c), Tail(comps))

Touch(f, p, t) == IF p \in DOMAIN f THEN [f EXCEPT ![p].mtime = t] ELSE f

Remove(f, gone) == [q \in DOMAIN f \ gone |-> f[q]]

AddNode(f, p, node, t) == Touch((p :> node) @@ f, Parent(p), t)

Fail(f, e) == [err |-> e, fs |-> f]
Done(f)    == [err |-> "OK", fs |-> f]

\* open(path, O_CREAT | O_EXCL | O_WRONLY) and close
sys_open_excl(f, comps, t) ==
    LET r == Resolve(f, <<>>, comps) IN
    IF r.err # "OK" THEN Fail(f, r.err)
    ELSE IF Exists(f, r.path) THEN Fail(f, "EEXIST")
    ELSE Done(AddNode(f, r.path, FileNode(<<>>, t), t))

\* open(path, O_WRONLY | O_CREAT | O_TRUNC or O_APPEND), write all of `bytes`,
\* fsync, close
sys_open_write(f, comps, trunc, bytes, t) ==
    LET r == Resolve(f, <<>>, comps) IN
    IF r.err # "OK" THEN Fail(f, r.err)
    ELSE IF IsDir(f, r.path) THEN Fail(f, "EISDIR")
    ELSE IF IsFile(f, r.path)
         THEN LET old == f[r.path]
                  new == IF trunc THEN bytes ELSE old.data \o bytes
                  mt  == IF trunc \/ bytes # <<>> THEN t ELSE old.mtime
              IN Done([f EXCEPT ![r.path] = FileNode(new, mt)])
         ELSE Done(AddNode(f, r.path, FileNode(bytes, t), t))

\* unlink(path)
sys_unlink(f, comps, t) ==
    LET r == Resolve(f, <<>>, comps) IN
    IF r.err # "OK" THEN Fail(f, r.err)
    ELSE IF ~Exists(f, r.path) THEN Fail(f, "ENOENT")
    ELSE IF IsDir(f, r.path) THEN Fail(f, "EISDIR")
    ELSE Done(Touch(Remove(f, {r.path}), Parent(r.path), t))

\* mkdir(path, 0755)
sys_mkdir(f, comps, t) ==
    LET r == Resolve(f, <<>>, comps) IN
    IF r.err # "OK" THEN Fail(f, r.err)
    ELSE IF Exists(f, r.path) THEN Fail(f, "EEXIST")
    ELSE Done(AddNode(f, r.path, DirNode(t), t))

\* rmdir(path)
sys_rmdir(f, comps, t) ==
    LET r == Resolve(f, <<>>, comps) IN
    IF r.err # "OK" THEN Fail(f, r.err)
    ELSE IF ~Exists(f, r.path) THEN Fail(f, "ENOENT")
    ELSE IF ~IsDir(f, r.path) THEN Fail(f, "ENOTDIR")
    ELSE IF comps # <<>> /\ comps[Len(comps)] = "." THEN Fail(f, "EINVAL")
    ELSE IF Children(f, r.path) # {} THEN Fail(f, "ENOTEMPTY")
    ELSE IF r.path = <<>> THEN Fail(f, "EBUSY")
    ELSE Done(Touch(Remove(f, {r.path}), Parent(r.path), t))

\* rename(old, new)
sys_rename(f, oldc, newc, t) ==
    LET ro == Resolve(f, <<>>, oldc)
        rn == Resolve(f, <<>>, newc)
    IN
    IF ro.err # "OK" THEN Fail(f, ro.err)
    ELSE IF ~Exists(f, ro.path) THEN Fail(f, "ENOENT")
    ELSE IF rn.err # "OK" THEN Fail(f, rn.err)
    ELSE IF ro.path = rn.path THEN Done(f)
    ELSE IF IsDir(f, ro.path) /\ IsPrefix(ro.path, rn.path) THEN Fail(f, "EINVAL")
    ELSE IF IsDir(f, ro.path) /\ IsFile(f, rn.path) THEN Fail(f, "ENOTDIR")
    ELSE IF IsFile(f, ro.path) /\ IsDir(f, rn.path) THEN Fail(f, "EISDIR")
    ELSE IF Children(f, rn.path) # {} THEN Fail(f, "ENOTEMPTY")
    ELSE LET moved == {q \in DOMAIN f : IsPrefix(ro.path, q)}
             dest(q) == rn.path \o SubSeq(q, Len(ro.path) + 1, Len(q))
             kept  == Remove(f, moved \cup {rn.path})
             g     == [q \in {dest(m) : m \in moved} |->
                          f[CHOOSE m \in moved : dest(m) = q]]
         IN Done(Touch(Touch(g @@ kept, Parent(ro.path), t), Parent(rn.path), t))


---------------------------------------------------------------------------
(* LocalStorageEngine: the store on_apply writes to and reads are served from *)

\* LocalStorageEngine::get_full_path: strip one leading '/', then
\* base_path_ + "/" + clean_path
get_full_path(r, path) ==
    LET clean_path == IF path # <<>> /\ Head(path) = "" THEN Tail(path) ELSE path
    IN base_path_(r) \o clean_path

\* open fails with EEXIST: "return 0; // Idempotent"
do_create_file(f, r, path, t) ==
    LET s == sys_open_excl(f, get_full_path(r, path), t) IN
    IF s.err = "EEXIST" THEN Done(f) ELSE s

do_write_file(f, r, path, data, t) ==
    sys_open_write(f, get_full_path(r, path), TRUE, data, t)

do_append_file(f, r, path, data, t) ==
    sys_open_write(f, get_full_path(r, path), FALSE, data, t)

do_delete_file(f, r, path, t) ==
    LET s == sys_unlink(f, get_full_path(r, path), t) IN
    IF s.err = "ENOENT" THEN Done(f) ELSE s

do_create_directory(f, r, path, t) ==
    LET s == sys_mkdir(f, get_full_path(r, path), t) IN
    IF s.err = "EEXIST" THEN Done(f) ELSE s

do_delete_directory(f, r, path, t) ==
    LET s == sys_rmdir(f, get_full_path(r, path), t) IN
    IF s.err = "ENOENT" THEN Done(f) ELSE s

do_rename(f, r, old_path, new_path, t) ==
    sys_rename(f, get_full_path(r, old_path), get_full_path(r, new_path), t)

FSOperationType ==
    {"CREATE_FILE", "WRITE_FILE", "APPEND_FILE", "DELETE_FILE", "CREATE_DIR",
     "DELETE_DIR", "RENAME"}

\* FSOperation{type, path, data}; for RENAME data holds the new path
FSOperation(type, path, data) == [type |-> type, path |-> path, data |-> data]

\* LocalStorageEngine::apply_operation: the errno of the operation, 0 as "OK"
apply_operation(f, r, op, t) ==
    CASE op.type = "CREATE_FILE" -> do_create_file(f, r, op.path, t)
      [] op.type = "WRITE_FILE"  -> do_write_file(f, r, op.path, op.data, t)
      [] op.type = "APPEND_FILE" -> do_append_file(f, r, op.path, op.data, t)
      [] op.type = "DELETE_FILE" -> do_delete_file(f, r, op.path, t)
      [] op.type = "CREATE_DIR"  -> do_create_directory(f, r, op.path, t)
      [] op.type = "DELETE_DIR"  -> do_delete_directory(f, r, op.path, t)
      [] op.type = "RENAME"      ->
            IF op.data = <<>> THEN Fail(f, "EINVAL")
            ELSE do_rename(f, r, op.path, op.data, t)
      [] OTHER -> Fail(f, "EINVAL")

\* RaftFilesystemService::errno_to_status
errno_to_status(err) ==
    CASE err = "OK"        -> "OK"
      [] err = "ENOENT"    -> "NOT_FOUND"
      [] err = "EEXIST"    -> "ALREADY_EXISTS"
      [] err = "ENOTDIR"   -> "NOT_DIRECTORY"
      [] err = "ENOTEMPTY" -> "DIRECTORY_NOT_EMPTY"
      [] err = "EINVAL"    -> "INVALID_PATH"
      [] OTHER             -> "IO_ERROR"

Ok(v)     == [status |-> "OK", value |-> v]
Error(st) == [status |-> st]

\* LocalStorageEngine::read_file: open(O_RDONLY), fstat, read st_size bytes.
\* A directory opens, and read() on it fails with EISDIR.
read_file(f, r, path) ==
    LET s == Resolve(f, <<>>, get_full_path(r, path)) IN
    IF s.err = "ENOENT" \/ (s.err = "OK" /\ ~Exists(f, s.path)) THEN Error("NOT_FOUND")
    ELSE IF s.err # "OK" \/ IsDir(f, s.path) THEN Error("IO_ERROR")
    ELSE Ok(f[s.path].data)

\* LocalStorageEngine::list_directory: the d_name of every entry but "." and
\* "..".  readdir's order is unspecified; the model returns the names as a set.
list_directory(f, r, path) ==
    LET s == Resolve(f, <<>>, get_full_path(r, path)) IN
    IF s.err = "ENOENT" \/ (s.err = "OK" /\ ~Exists(f, s.path)) THEN Error("NOT_FOUND")
    ELSE IF s.err # "OK" \/ ~IsDir(f, s.path) THEN Error("IO_ERROR")
    ELSE Ok({q[Len(q)] : q \in Children(f, s.path)})

\* FileInfo{name, size, is_directory, last_modified} as LocalStorageEngine::stat
\* fills it: name is what follows the last '/' of the path given
FileInfo(path, node) ==
    [name          |-> IF path = <<>> THEN "" ELSE path[Len(path)],
     size          |-> Len(node.data),
     is_directory  |-> node.kind = "dir",
     last_modified |-> node.mtime]

\* LocalStorageEngine::stat
stat(f, r, path) ==
    LET s == Resolve(f, <<>>, get_full_path(r, path)) IN
    IF s.err = "ENOENT" \/ (s.err = "OK" /\ ~Exists(f, s.path)) THEN Error("NOT_FOUND")
    ELSE IF s.err # "OK" THEN Error("IO_ERROR")
    ELSE Ok(FileInfo(path, f[s.path]))

\* LocalStorageEngine::exists: Ok(path_exists(full_path))
exists(f, r, path) ==
    LET s == Resolve(f, <<>>, get_full_path(r, path)) IN
    Ok(s.err = "OK" /\ Exists(f, s.path))

ReadOps == {"read_file", "list_directory", "stat", "exists"}

\* RaftFilesystemService::read_file / list_directory / stat / exists: each
\* forwards to storage_
LocalRead(f, r, rop, path) ==
    CASE rop = "read_file"      -> read_file(f, r, path)
      [] rop = "list_directory" -> list_directory(f, r, path)
      [] rop = "stat"           -> stat(f, r, path)
      [] rop = "exists"         -> exists(f, r, path)

\* The replicated tree of replica r: what lies under its base directory, by
\* path relative to the base, without the kernel's timestamps
Tree(f, r) ==
    LET b == base_path_(r)
        under == {q \in DOMAIN f : IsPrefix(b, q) /\ q # b}
        rel(q) == SubSeq(q, Len(b) + 1, Len(q))
    IN [p \in {rel(q) : q \in under} |->
           LET n == f[b \o p] IN [kind |-> n.kind, data |-> n.data]]


---------------------------------------------------------------------------
(* The Raft log, on_apply, and the closures of the submit path *)

\* the node whose RaftFilesystemService is modelled in full
ThisNode == "r1"
\* braft::PeerId() : leader_id() when no leader is known
NoPeer == "none"
\* threads calling the write API of ThisNode
Callers == {"c1", "c2"}
\* iter.done() of an entry this node did not submit
NoClosure == "nil"
\* the FSM thread between callbacks
FsmIdle == [pc |-> "idle", term |-> -1]
\* the bytes of a log entry FSOperation::deserialize rejects
Garbage == [type |-> "garbage", path |-> <<>>, data |-> <<>>]

\* FSOperation::deserialize on the bytes of a log entry.  The bytes of a
\* well-formed entry are modelled by the operation they encode.
deserialize(bytes) ==
    IF bytes = Garbage THEN [has_value |-> FALSE, value |-> bytes]
    ELSE [has_value |-> TRUE, value |-> bytes]

\* FSOperationClosure(): result_status(OK), done(false); status() is the
\* braft::Closure status the library sets when it fails a task.  `reached`
\* records for the claims that on_apply filled this closure.
NewClosure == [result_status |-> "OK", done |-> FALSE, status |-> "OK",
               reached |-> FALSE]

\* The body of the on_apply loop for one entry on replica r: what it does to
\* the store and the status it computes
ApplyEntry(f, r, entry, t) ==
    LET op_opt == deserialize(entry.data) IN
    IF ~op_opt.has_value
    THEN [fs |-> f, status |-> "RAFT_ERROR"]
    ELSE LET result == apply_operation(f, r, op_opt.value, t)
         IN [fs |-> result.fs, status |-> errno_to_status(result.err)]

\* FSOperationClosure::Run
Run(cl) == [cl EXCEPT !.done = TRUE]

\* on_apply filling the closure of the entry, then AsyncClosureGuard running it
FillClosure(cl, status) ==
    Run([cl EXCEPT !.result_status = status, !.reached = TRUE])

\* An on_apply that leaves its loop at an entry it cannot decode: once such
\* an entry was met, nothing more is applied
OnApply_break(r) ==
    /\ applied[r] < Len(log)
    /\ \A i \in 1..applied[r] : log[i].data # Garbage
    /\ r = ThisNode => fsm = FsmIdle
    /\ LET entry == log[applied[r] + 1]
           a == ApplyEntry(fs[r], r, entry, now)
       IN /\ fs' = [fs EXCEPT ![r] = a.fs]
          /\ results' = [results EXCEPT ![r] = Append(@, a.status)]
          /\ closure' = IF r = ThisNode /\ entry.done # NoClosure
                        THEN [closure EXCEPT ![entry.done] = FillClosure(@, a.status)]
                        ELSE closure
    /\ applied' = [applied EXCEPT ![r] = @ + 1]
    /\ UNCHANGED <<log, now, rd, is_leader_, leader_term_, raftTerm, raftLeader,
                   cbq, fsm, tasks, spc, sop, sret, rpcVars, lockVars, moreVars>>

\* RaftFilesystemService::on_apply, one iteration, on replica r
OnApply(r) ==
    /\ applied[r] < Len(log)
    /\ r = ThisNode => fsm = FsmIdle
    /\ LET entry == log[applied[r] + 1]
           a == ApplyEntry(fs[r], r, entry, now)
       IN /\ fs' = [fs EXCEPT ![r] = a.fs]
          /\ results' = [results EXCEPT ![r] = Append(@, a.status)]
          /\ closure' = IF r = ThisNode /\ entry.done # NoClosure
                        THEN [closure EXCEPT ![entry.done] = FillClosure(@, a.status)]
                        ELSE closure
    /\ applied' = [applied EXCEPT ![r] = @ + 1]
    /\ UNCHANGED <<log, now, rd, is_leader_, leader_term_, raftTerm, raftLeader,
                   cbq, fsm, tasks, spc, sop, sret, rpcVars, lockVars, moreVars>>

\* The Raft library commits an entry that another node proposed
Commit(data) ==
    /\ Len(log) < MaxLog
    /\ log' = Append(log, [data |-> data, done |-> NoClosure])
    /\ UNCHANGED <<applied, fs, results, now, rd, submitVars, rpcVars, lockVars, moreVars>>

\* The wall clock of the hosts advances
Tick ==
    /\ now < MaxClock
    /\ now' = now + 1
    /\ UNCHANGED <<log, applied, fs, results, rd, submitVars, rpcVars, lockVars, moreVars>>

NoRead == [node |-> NoPeer, rop |-> "none", path |-> <<>>, result |-> Error("none"),
           committed |-> 0, seen |-> 0]

\* A client calls read_file / list_directory / stat / exists on node r: the
\* answer comes from storage_ as it is.  `committed` and `seen` record for
\* the claims how long the log was and how much of it r had applied.
Read(r, rop, path) ==
    /\ rd' = [node |-> r, rop |-> rop, path |-> path,
              result |-> LocalRead(fs[r], r, rop, path),
              committed |-> Len(log), seen |-> applied[r]]
    /\ UNCHANGED <<log, applied, fs, results, now, submitVars, rpcVars, lockVars, moreVars>>


---------------------------------------------------------------------------
(* RaftFilesystemService::submit_operation and the Raft library around it *)

NoReturn == [status |-> "none", leader |-> NoPeer, tasked |-> FALSE]

\* A submit_operation that answers NOT_LEADER whether or not a leader is known
NotLeaderError_always(leader) ==
    [status |-> "NOT_LEADER", leader |-> leader, tasked |-> FALSE]

\* submit_operation when is_leader() is false: NO_LEADER when get_leader() is
\* empty, else NOT_LEADER with "current leader is: " + leader
NotLeaderError(leader) ==
    IF leader = NoPeer
    THEN [status |-> "NO_LEADER", leader |-> NoPeer, tasked |-> FALSE]
    ELSE [status |-> "NOT_LEADER", leader |-> leader, tasked |-> FALSE]

\* submit_operation after done->wait(): status = done->result_status;
\* Error(status, error_msg) unless it is OK
SubmitResult(cl) == [status |-> cl.result_status, leader |-> NoPeer, tasked |-> TRUE]

\* A thread enters create_file / write_file / ... / rename, which builds the
\* FSOperation and calls submit_operation
SubmitCall(c, op) ==
    /\ spc[c] = "idle"
    /\ spc' = [spc EXCEPT ![c] = "check"]
    /\ sop' = [sop EXCEPT ![c] = op]
    /\ sret' = [sret EXCEPT ![c] = NoReturn]
    /\ UNCHANGED <<replVars, is_leader_, leader_term_, raftTerm, raftLeader, cbq,
                   fsm, tasks, closure, rpcVars, lockVars, moreVars>>

\* The term given to the on_leader_start that was the last to store
\* is_leader_: the callback's argument while it is between its two stores,
\* else the term it has stored
LeadershipTerm == IF fsm.pc = "store_term" THEN fsm.term ELSE leader_term_

\* if (!is_leader())
SubmitCheckLeader(c) ==
    /\ spc[c] = "check"
    /\ spc' = [spc EXCEPT ![c] = IF is_leader_ THEN "apply" ELSE "redirect"]
    /\ checked' = [checked EXCEPT ![c] = IF is_leader_ THEN LeadershipTerm ELSE @]
    /\ UNCHANGED <<replVars, is_leader_, leader_term_, raftTerm, raftLeader, cbq,
                   fsm, tasks, closure, sop, sret, rpcVars, lockVars, baseVars,
                   lateVars>>

\* braft::PeerId leader = get_leader(); return Error(...)
SubmitRedirect(c) ==
    /\ spc[c] = "redirect"
    /\ sret' = [sret EXCEPT ![c] = NotLeaderError(raftLeader)]
    /\ spc' = [spc EXCEPT ![c] = "done"]
    /\ UNCHANGED <<replVars, is_leader_, leader_term_, raftTerm, raftLeader, cbq,
                   fsm, tasks, closure, sop, rpcVars, lockVars, moreVars>>

\* A submit that also runs the operation against the local store before it
\* hands the task to Raft
SubmitApply_direct(c) ==
    /\ spc[c] = "apply"
    /\ closure' = [closure EXCEPT ![c] = NewClosure]
    /\ tasks' = tasks \cup {[caller |-> c, data |-> sop[c],
                             expected_term |-> leader_term_]}
    /\ spc' = [spc EXCEPT ![c] = "wait"]
    /\ fs' = [fs EXCEPT ![ThisNode] =
                 ApplyEntry(@, ThisNode, [data |-> sop[c]], now).fs]
    /\ checked' = [checked EXCEPT ![c] = -1]
    /\ UNCHANGED <<log, applied, results, now, rd, is_leader_, leader_term_, raftTerm,
                   raftLeader, cbq, fsm, sop, sret, rpcVars, lockVars, baseVars,
                   lateVars>>

\* serialize, new FSOperationClosure, task.expected_term = leader_term_,
\* node_->apply(task)
SubmitApply(c) ==
    /\ spc[c] = "apply"
    /\ closure' = [closure EXCEPT ![c] = NewClosure]
    /\ tasks' = tasks \cup {[caller |-> c, data |-> sop[c],
                             expected_term |-> leader_term_]}
    /\ spc' = [spc EXCEPT ![c] = "wait"]
    /\ checked' = [checked EXCEPT ![c] = -1]
    /\ UNCHANGED <<replVars, is_leader_, leader_term_, raftTerm, raftLeader, cbq,
                   fsm, sop, sret, rpcVars, lockVars, baseVars, lateVars>>

\* done->wait() returns once done is set; the result is read and returned
SubmitWait(c) ==
    /\ spc[c] = "wait"
    /\ closure[c].done
    /\ sret' = [sret EXCEPT ![c] = SubmitResult(closure[c])]
    /\ spc' = [spc EXCEPT ![c] = "done"]
    /\ UNCHANGED <<replVars, is_leader_, leader_term_, raftTerm, raftLeader, cbq,
                   fsm, tasks, closure, sop, rpcVars, lockVars, moreVars>>

\* The library accepts a task of this node, replicates and commits it: the
\* node is leader and the task's expected_term is the current term (or -1,
\* which asks for no check)
CommitTask(task) ==
    /\ task \in tasks
    /\ raftLeader = ThisNode
    /\ task.expected_term \in {-1, raftTerm}
    /\ Len(log) < MaxLog
    /\ log' = Append(log, [data |-> task.data, done |-> task.caller])
    /\ tasks' = tasks \ {task}
    /\ UNCHANGED <<applied, fs, results, now, rd, is_leader_, leader_term_,
                   raftTerm, raftLeader, cbq, fsm, closure, spc, sop, sret,
                   rpcVars, lockVars, moreVars>>

\* The library fails a task: the node is not leader, or expected_term does
\* not match.  It sets the closure's status to an error and runs it; the entry
\* never reaches on_apply.
FailTask(task) ==
    /\ task \in tasks
    /\ raftLeader # ThisNode \/ task.expected_term \notin {-1, raftTerm}
    /\ closure' = [closure EXCEPT ![task.caller] = Run([@ EXCEPT !.status = "EPERM"])]
    /\ tasks' = tasks \ {task}
    /\ UNCHANGED <<replVars, is_leader_, leader_term_, raftTerm, raftLeader, cbq,
                   fsm, spc, sop, sret, rpcVars, lockVars, moreVars>>

\* This node wins an election
RaftElect ==
    /\ raftLeader # ThisNode
    /\ raftTerm < MaxTerm
    /\ raftTerm' = raftTerm + 1
    /\ raftLeader' = ThisNode
    /\ cbq' = Append(cbq, [cb |-> "start", term |-> raftTerm + 1])
    /\ UNCHANGED <<replVars, is_leader_, leader_term_, fsm, tasks, closure, spc,
                   sop, sret, rpcVars, lockVars, moreVars>>

\* This node steps down; it knows the new leader, or none yet
RaftStepDown(l) ==
    /\ raftLeader = ThisNode
    /\ l \in (Replicas \ {ThisNode}) \cup {NoPeer}
    /\ raftLeader' = l
    /\ cbq' = Append(cbq, [cb |-> "stop", term |-> raftTerm])
    /\ UNCHANGED <<replVars, is_leader_, leader_term_, raftTerm, fsm, tasks,
                   closure, spc, sop, sret, rpcVars, lockVars, moreVars>>

\* While following, this node learns of a leader or loses it
RaftFollow(l) ==
    /\ raftLeader # ThisNode
    /\ l \in (Replicas \ {ThisNode}) \cup {NoPeer}
    /\ l # raftLeader
    /\ raftLeader' = l
    /\ UNCHANGED <<replVars, is_leader_, leader_term_, raftTerm, cbq, fsm, tasks,
                   closure, spc, sop, sret, rpcVars, lockVars, moreVars>>

\* on_leader_start(term), first store: is_leader_.store(true)
OnLeaderStart(term) ==
    /\ fsm = FsmIdle
    /\ cbq # <<>> /\ Head(cbq) = [cb |-> "start", term |-> term]
    /\ is_leader_' = TRUE
    /\ fsm' = [pc |-> "store_term", term |-> term]
    /\ cbq' = Tail(cbq)
    /\ UNCHANGED <<replVars, leader_term_, raftTerm, raftLeader, tasks, closure,
                   spc, sop, sret, rpcVars, lockVars, moreVars>>

\* on_leader_start(term), second store: leader_term_.store(term)
OnLeaderStartTerm ==
    /\ fsm.pc = "store_term"
    /\ leader_term_' = fsm.term
    /\ fsm' = FsmIdle
    /\ UNCHANGED <<replVars, is_leader_, raftTerm, raftLeader, cbq, tasks, closure,
                   spc, sop, sret, rpcVars, lockVars, moreVars>>

\* An on_leader_stop that also puts leader_term_ back to its initial value
OnLeaderStop_reset ==
    /\ fsm = FsmIdle
    /\ cbq # <<>> /\ Head(cbq).cb = "stop"
    /\ is_leader_' = FALSE
    /\ leader_term_' = -1
    /\ cbq' = Tail(cbq)
    /\ UNCHANGED <<replVars, raftTerm, raftLeader, fsm, tasks,
                   closure, spc, sop, sret, rpcVars, lockVars, moreVars>>

\* on_leader_stop(status): is_leader_.store(false)
OnLeaderStop ==
    /\ fsm = FsmIdle
    /\ cbq # <<>> /\ Head(cbq).cb = "stop"
    /\ is_leader_' = FALSE
    /\ cbq' = Tail(cbq)
    /\ UNCHANGED <<replVars, leader_term_, raftTerm, raftLeader, fsm, tasks,
                   closure, spc, sop, sret, rpcVars, lockVars, moreVars>>

\* The callbacks that only log: on_error, on_configuration_committed,
\* on_start_following, on_stop_following
Advisory == {"error", "configuration_committed", "start_following", "stop_following"}

\* most callbacks the library has queued and the FSM thread not yet run
MaxQueue == 2

\* The library has something to tell the state machine and queues the callback
RaftNotify(cb) ==
    /\ cb \in Advisory
    /\ Len(cbq) < MaxQueue
    /\ cbq' = Append(cbq, [cb |-> cb, term |-> raftTerm])
    /\ UNCHANGED <<replVars, is_leader_, leader_term_, raftTerm, raftLeader, fsm, tasks,
                   closure, spc, sop, sret, rpcVars, lockVars, moreVars>>

\* on_error / on_configuration_committed / on_start_following /
\* on_stop_following: spdlog and return
OnAdvisory ==
    /\ fsm = FsmIdle
    /\ cbq # <<>> /\ Head(cbq).cb \in Advisory
    /\ cbq' = Tail(cbq)
    /\ UNCHANGED <<replVars, is_leader_, leader_term_, raftTerm, raftLeader, fsm, tasks,
                   closure, spc, sop, sret, rpcVars, lockVars, moreVars>>


---------------------------------------------------------------------------
(* RpcServer::handle_connection and the StateMachine entry points it calls *)

\* most request frames the peer of the connection sends
MaxFrames == 2

\* commands::Type
WriteTypes == {"CREATE_FILE", "WRITE_FILE", "APPEND_FILE", "DELETE_FILE",
               "CREATE_DIR", "DELETE_DIR", "RENAME"}
ReadTypes  == {"READ_FILE", "LIST_DIR"}
\* a type value that is none of the enumerators
UnknownType == "UNKNOWN"

\* What the peer can put on the wire: a frame whose body decodes to a
\* Command (big: it packs to more than MAX_LOG_ENTRY_SIZE), a frame whose
\* body msgpack rejects, a frame of length 0 (an empty body), a length
\* prefix above 100 MB, and the end of the stream
Frame(kind, type, big) == [kind |-> kind, type |-> type, big |-> big]
Frames ==
    {Frame("cmd", t, FALSE) : t \in WriteTypes \cup ReadTypes \cup {UnknownType}}
    \cup {Frame("cmd", "WRITE_FILE", TRUE), Frame("undecodable", "none", FALSE),
          Frame("zero", "none", FALSE), Frame("oversize", "none", FALSE),
          Frame("eof", "none", FALSE)}
NoFrame == Frame("none", "none", FALSE)

\* The length prefix of the frame and as many body bytes as it announces
\* have been read from the connection
FrameComplete(frame) == frame.kind \in {"cmd", "undecodable", "zero"}

\* 100 * 1024 * 1024 in receive_message
MaxMessageLen == 104857600

\* ntohl(msg_len_net) of the frame: 0 for an empty body, 100 MB + 1 for the
\* oversize prefix, exactly 100 MB for the command that packs to more than
\* MAX_LOG_ENTRY_SIZE once apply_write_command packs it again, a few bytes
\* for the others
msg_len(frame) ==
    CASE frame.kind = "zero"       -> 0
      [] frame.kind = "oversize"   -> MaxMessageLen + 1
      [] frame.kind = "cmd" /\ frame.big -> MaxMessageLen
      [] frame.kind = "cmd"        -> 16
      [] OTHER                     -> 1

\* RpcServer::receive_message: false when receive_exact fails, and when
\* msg_len == 0 || msg_len > 100 MB
receive_message(frame) ==
    /\ frame.kind # "eof"
    /\ ~(msg_len(frame) = 0 \/ msg_len(frame) > MaxMessageLen)

\* A switch whose LIST_DIR case falls in with the write cases
Route_list_as_write(type) ==
    IF type \in WriteTypes \cup {"LIST_DIR"} THEN "process_write_request"
    ELSE IF type = "READ_FILE" THEN "process_read_request"
    ELSE "default"

\* the switch of handle_connection
Route(type) ==
    IF type \in WriteTypes THEN "process_write_request"
    ELSE IF type = "READ_FILE" THEN "process_read_request"
    ELSE IF type = "LIST_DIR" THEN "process_list_request"
    ELSE "default"

\* commands::Response, with the request it answers
Response(success, error) == [success |-> success, error |-> error]

\* RpcServer::send_message: one response frame on the connection
send_message(out, n, resp) == Append(out, [req |-> n, resp |-> resp])

\* what the connection thread did for request n
Call(n, type, route, task, store, leader) ==
    [req |-> n, type |-> type, route |-> route, task |-> task, store |-> store,
     leader |-> leader]

\* The peer sends one more frame
PeerSend(frame) ==
    /\ nread + Len(inbox) < MaxFrames
    /\ hpc # "closed"
    /\ inbox' = Append(inbox, frame)
    /\ UNCHANGED <<replVars, submitVars, hpc, cur, nread, outbox, calls, smLeader,
                   lockVars, moreVars>>

\* while (conn->is_connected()) { if (!receive_message(...)) break;
HandlerReceive ==
    /\ hpc = "recv"
    /\ inbox # <<>>
    /\ inbox' = Tail(inbox)
    /\ nread' = IF FrameComplete(Head(inbox)) THEN nread + 1 ELSE nread
    /\ IF receive_message(Head(inbox))
       THEN /\ cur' = Head(inbox)
            /\ hpc' = "dispatch"
       ELSE /\ hpc' = "closed"
            /\ UNCHANGED cur
    /\ UNCHANGED <<replVars, submitVars, outbox, calls, smLeader, lockVars, moreVars>>

\* msgpack::unpack / convert throws: the catch block answers "Processing error"
HandlerDecodeError ==
    /\ hpc = "dispatch"
    /\ cur.kind = "undecodable"
    /\ outbox' = send_message(outbox, nread, Response(FALSE, "Processing error"))
    /\ calls' = Append(calls, Call(nread, cur.type, "catch", FALSE, "none", smLeader))
    /\ hpc' = "recv"
    /\ UNCHANGED <<replVars, submitVars, inbox, cur, nread, smLeader, lockVars, moreVars>>

\* default: "Unknown command type"
HandlerUnknown ==
    /\ hpc = "dispatch"
    /\ cur.kind = "cmd"
    /\ Route(cur.type) = "default"
    /\ outbox' = send_message(outbox, nread, Response(FALSE, "Unknown command type"))
    /\ calls' = Append(calls, Call(nread, cur.type, "default", FALSE, "none", smLeader))
    /\ hpc' = "recv"
    /\ UNCHANGED <<replVars, submitVars, inbox, cur, nread, smLeader, lockVars, moreVars>>

\* process_read_request / process_list_request -> apply_read_command ->
\* handle_read_file / handle_list_directory on storage_.  What the store
\* answers is not modelled: it succeeds or fails.
HandlerRead(ok) ==
    /\ hpc = "dispatch"
    /\ cur.kind = "cmd"
    /\ Route(cur.type) \in {"process_read_request", "process_list_request"}
    /\ outbox' = send_message(outbox, nread,
                     Response(ok, IF ok THEN "" ELSE "storage error"))
    /\ calls' = Append(calls, Call(nread, cur.type, Route(cur.type), FALSE, "read",
                                   smLeader))
    /\ hpc' = "recv"
    /\ UNCHANGED <<replVars, submitVars, inbox, cur, nread, smLeader, lockVars, moreVars>>

\* process_write_request -> apply_write_command, up to raft_node_->apply:
\* not leader, or the command too large, answers at once; else a task is
\* handed to Raft and the thread waits on the closure
HandlerWrite(leader) ==
    /\ hpc = "dispatch"
    /\ cur.kind = "cmd"
    /\ Route(cur.type) = "process_write_request"
    /\ leader \in (Replicas \ {ThisNode}) \cup {NoPeer}
    /\ IF ~smLeader
       THEN /\ outbox' = send_message(outbox, nread, Response(FALSE,
                            IF leader = NoPeer THEN "No leader available"
                            ELSE "Not leader, redirect to: " \o leader))
            /\ calls' = Append(calls, Call(nread, cur.type, Route(cur.type), FALSE,
                                           "none", smLeader))
            /\ hpc' = "recv"
       ELSE IF cur.big
       THEN /\ outbox' = send_message(outbox, nread, Response(FALSE, "Command too large"))
            /\ calls' = Append(calls, Call(nread, cur.type, Route(cur.type), FALSE,
                                           "none", smLeader))
            /\ hpc' = "recv"
       ELSE /\ calls' = Append(calls, Call(nread, cur.type, Route(cur.type), TRUE,
                                           "none", smLeader))
            /\ hpc' = "wait"
            /\ UNCHANGED outbox
    /\ UNCHANGED <<replVars, submitVars, inbox, cur, nread, smLeader, lockVars, moreVars>>

\* closure_ptr->wait() returns: success when status().ok(), else its error
HandlerWriteDone(ok) ==
    /\ hpc = "wait"
    /\ outbox' = send_message(outbox, nread,
                     Response(ok, IF ok THEN "" ELSE "raft error"))
    /\ hpc' = "recv"
    /\ UNCHANGED <<replVars, submitVars, inbox, cur, nread, calls, smLeader, lockVars, moreVars>>

\* StateMachine::on_leader_start / on_leader_stop
RoleChange ==
    /\ smLeader' = ~smLeader
    /\ UNCHANGED <<replVars, submitVars, inbox, hpc, cur, nread, outbox, calls,
                   lockVars, moreVars>>


---------------------------------------------------------------------------
(* FileLocker, ReadLock / WriteLock, and the Storage operations taking them *)

Threads == {"t1", "t2", "t3"}
LockPaths == {"a", "b"}

\* LockState{reader_count, write_locked}
LockState(reader_count, write_locked) ==
    [reader_count |-> reader_count, write_locked |-> write_locked]

\* A lock_read that does not look at write_locked
lock_read_unchecked(locks, path) ==
    IF path \notin DOMAIN locks
    THEN [returns |-> TRUE, locks |-> (path :> LockState(1, FALSE)) @@ locks]
    ELSE [returns |-> TRUE,
          locks |-> [locks EXCEPT ![path].reader_count = @ + 1]]

\* One pass of the loop of FileLocker::lock_read under mutex_: the table
\* after it, and whether the call returns (else it waits on cv_)
lock_read(locks, path) ==
    IF path \notin DOMAIN locks
    THEN [returns |-> TRUE, locks |-> (path :> LockState(1, FALSE)) @@ locks]
    ELSE IF ~locks[path].write_locked
    THEN [returns |-> TRUE,
          locks |-> [locks EXCEPT ![path].reader_count = @ + 1]]
    ELSE [returns |-> FALSE, locks |-> locks]

\* An unlock_read that leaves the entry in the map when the last reader goes
unlock_read_keep(locks, path) ==
    IF path \notin DOMAIN locks THEN locks
    ELSE [locks EXCEPT ![path].reader_count = @ - 1]

\* FileLocker::unlock_read
unlock_read(locks, path) ==
    IF path \notin DOMAIN locks THEN locks
    ELSE IF locks[path].reader_count - 1 = 0
    THEN [q \in DOMAIN locks \ {path} |-> locks[q]]
    ELSE [locks EXCEPT ![path].reader_count = @ - 1]

\* One pass of the loop of FileLocker::lock_write under mutex_
lock_write(locks, path) ==
    IF path \notin DOMAIN locks
    THEN [returns |-> TRUE, locks |-> (path :> LockState(0, TRUE)) @@ locks]
    ELSE IF locks[path].reader_count = 0 /\ ~locks[path].write_locked
    THEN [returns |-> TRUE, locks |-> [locks EXCEPT ![path].write_locked = TRUE]]
    ELSE [returns |-> FALSE, locks |-> locks]

\* FileLocker::unlock_write
unlock_write(locks, path) ==
    IF path \notin DOMAIN locks THEN locks
    ELSE [q \in DOMAIN locks \ {path} |-> locks[q]]

\* The Storage operations that take locks: read_file takes a ReadLock;
\* create_file, write_file, append_file and delete_file a WriteLock on the
\* path; rename a WriteLock on old_path, then one on new_path
StorageOp(name, path, new_path) == [name |-> name, path |-> path, new_path |-> new_path]
StorageOps ==
    {StorageOp("read_file", p, p) : p \in LockPaths}
    \cup {StorageOp("write_file", p, p) : p \in LockPaths}
    \cup {StorageOp("rename", p, q) : p \in LockPaths, q \in LockPaths}
NoOp == StorageOp("none", "a", "a")

\* The Storage operations that construct no ReadLock or WriteLock:
\* create_directory, delete_directory and list_directory go from
\* resolve_path straight to mkdir, rmdir and opendir
Lockless == {"create_directory", "delete_directory", "list_directory"}
DirectoryOps == {StorageOp(n, p, p) : n \in Lockless, p \in LockPaths}

\* A thread calls a Storage operation; validate_path passes.  The next
\* statement is the lock guard, or the system call where there is no guard.
StorageCall(t, op) ==
    /\ tpc[t] = "idle"
    /\ top' = [top EXCEPT ![t] = op]
    /\ tpc' = [tpc EXCEPT ![t] = IF op.name \in Lockless THEN "body" ELSE "lock"]
    /\ UNCHANGED <<replVars, submitVars, rpcVars, locks_, held, moreVars>>

\* ReadLock file_lock(file_locker_, path): lock_read returns
AcquireRead(t) ==
    /\ tpc[t] = "lock"
    /\ top[t].name = "read_file"
    /\ lock_read(locks_, top[t].path).returns
    /\ locks_' = lock_read(locks_, top[t].path).locks
    /\ held' = [held EXCEPT ![t] = @ \cup {<<top[t].path, "r">>}]
    /\ tpc' = [tpc EXCEPT ![t] = "body"]
    /\ UNCHANGED <<replVars, submitVars, rpcVars, top, moreVars>>

\* WriteLock file_lock(file_locker_, path), or WriteLock old_lock(file_locker_,
\* old_path) of rename: lock_write returns
AcquireWrite(t) ==
    /\ tpc[t] = "lock"
    /\ top[t].name \in {"write_file", "rename"}
    /\ lock_write(locks_, top[t].path).returns
    /\ locks_' = lock_write(locks_, top[t].path).locks
    /\ held' = [held EXCEPT ![t] = @ \cup {<<top[t].path, "w">>}]
    /\ tpc' = [tpc EXCEPT ![t] = IF top[t].name = "rename" THEN "lock_new" ELSE "body"]
    /\ UNCHANGED <<replVars, submitVars, rpcVars, top, moreVars>>

\* WriteLock new_lock(file_locker_, new_path) of rename: lock_write returns
AcquireNew(t) ==
    /\ tpc[t] = "lock_new"
    /\ lock_write(locks_, top[t].new_path).returns
    /\ locks_' = lock_write(locks_, top[t].new_path).locks
    /\ held' = [held EXCEPT ![t] = @ \cup {<<top[t].new_path, "w">>}]
    /\ tpc' = [tpc EXCEPT ![t] = "body"]
    /\ UNCHANGED <<replVars, submitVars, rpcVars, top, moreVars>>

\* The system calls of the operation are done and it returns: the guards are
\* destroyed in reverse order of construction.  ~new_lock of rename runs first.
ReleaseNew(t) ==
    /\ tpc[t] = "body"
    /\ top[t].name = "rename"
    /\ locks_' = unlock_write(locks_, top[t].new_path)
    /\ held' = [held EXCEPT ![t] = @ \ {<<top[t].new_path, "w">>}]
    /\ tpc' = [tpc EXCEPT ![t] = "unlock"]
    /\ UNCHANGED <<replVars, submitVars, rpcVars, top, moreVars>>

\* ~ReadLock, ~WriteLock of the path (old_lock of rename); an operation
\* without a guard just returns
Release(t) ==
    /\ \/ tpc[t] = "body" /\ top[t].name # "rename"
       \/ tpc[t] = "unlock"
    /\ locks_' = IF top[t].name \in Lockless THEN locks_
                 ELSE IF top[t].name = "read_file"
                 THEN unlock_read(locks_, top[t].path)
                 ELSE unlock_write(locks_, top[t].path)
    /\ held' = [held EXCEPT ![t] = {}]
    /\ tpc' = [tpc EXCEPT ![t] = "idle"]
    /\ UNCHANGED <<replVars, submitVars, rpcVars, top, moreVars>>


---------------------------------------------------------------------------
(* Storage (storage.cc): the path guard and the operations behind it *)

\* path.length() > 4096 in validate_path
MaxPathLen == 4096
\* MAX_FILE_SIZE, 100 MB
MAX_FILE_SIZE == 104857600

\* base_path_ of the Storage, as an absolute path
StoreBase == <<"data">>

\* File contents are sequences of bytes; Big stands for a run of exactly
\* MAX_FILE_SIZE bytes
Big == "<100 MB>"

RECURSIVE ByteSize(_)
ByteSize(data) ==
    IF data = <<>> THEN 0
    ELSE (IF Head(data) = Big THEN MAX_FILE_SIZE ELSE 1) + ByteSize(Tail(data))

\* path.length(): the components and the '/' between them
RECURSIVE PathLength(_)
PathLength(path) ==
    IF path = <<>> THEN 0
    ELSE IF Len(path) = 1 THEN CompLen(path[1])
    ELSE CompLen(Head(path)) + 1 + PathLength(Tail(path))

\* An is_safe_path that looks for ".." in the first component only
is_safe_path_first_only(path) ==
    /\ ~(path # <<>> /\ Head(path) = "")
    /\ path # <<>> => Head(path) # ".."
    /\ \A i \in 1..Len(path) : path[i] \notin {"", "."} => path[i] # NulName

\* is_safe_path: no leading '/', no ".." component, no NUL byte in a
\* component that is neither empty nor "."
is_safe_path(path) ==
    /\ ~(path # <<>> /\ Head(path) = "")
    /\ \A i \in 1..Len(path) : path[i] # ".."
    /\ \A i \in 1..Len(path) : path[i] \notin {"", "."} => path[i] # NulName

\* Storage::validate_path
validate_path(path) ==
    IF PathLength(path) > MaxPathLen THEN "InvalidPath"
    ELSE IF ~is_safe_path(path) THEN "InvalidPath"
    ELSE "Success"

\* normalize_path: runs of '/' collapse, leading and trailing '/' go; what
\* is left are the non-empty components
normalize_path(path) == SelectSeq(path, LAMBDA c : c # "")

\* Storage::resolve_path: base_path_ alone, or base_path_ + "/" + clean
resolve_path(path) == StoreBase \o normalize_path(path)

\* Error::from_errno
from_errno(err) ==
    CASE err = "OK"      -> "Success"
      [] err = "ENOENT"  -> "FileNotFound"
      [] err = "EEXIST"  -> "AlreadyExists"
      [] err = "ENOTDIR" -> "NotDirectory"
      [] OTHER           -> "IoError"

\* What a Storage call returned and did: its ErrorCode, the filesystem it
\* leaves, the locks it took and the system calls it issued, in order, and
\* the bytes or the entries it returns
StoreResult(code, f, locks, syscalls, data, entries) ==
    [code |-> code, fs |-> f, locks |-> locks, syscalls |-> syscalls, data |-> data,
     entries |-> entries]

\* return validation;
Rejected(f, code) == StoreResult(code, f, <<>>, <<>>, <<>>, {})

\* A create_file that reports EEXIST like any other errno
Storage_create_file_strict(f, path, t) ==
    IF validate_path(path) # "Success" THEN Rejected(f, validate_path(path))
    ELSE LET s == sys_open_excl(f, resolve_path(path), t) IN
         StoreResult(from_errno(s.err), s.fs, <<<<path, "w">>>>, <<"open">>, <<>>, {})

\* Storage::create_file
Storage_create_file(f, path, t) ==
    IF validate_path(path) # "Success" THEN Rejected(f, validate_path(path))
    ELSE LET s == sys_open_excl(f, resolve_path(path), t) IN
         StoreResult(IF s.err = "EEXIST" THEN "Success" ELSE from_errno(s.err),
                     s.fs, <<<<path, "w">>>>, <<"open">>, <<>>, {})

\* Storage::create_directory
Storage_create_directory(f, path, t) ==
    IF validate_path(path) # "Success" THEN Rejected(f, validate_path(path))
    ELSE LET s == sys_mkdir(f, resolve_path(path), t) IN
         StoreResult(IF s.err = "EEXIST" THEN "Success" ELSE from_errno(s.err),
                     s.fs, <<>>, <<"mkdir">>, <<>>, {})

\* A read_file that refuses st_size >= MAX_FILE_SIZE
Storage_read_file_ge(f, path) ==
    IF validate_path(path) # "Success" THEN Rejected(f, validate_path(path))
    ELSE LET s == Resolve(f, <<>>, resolve_path(path))
             lk == <<<<path, "r">>>>
         IN
         IF s.err # "OK" THEN StoreResult(from_errno(s.err), f, lk, <<"open">>, <<>>, {})
         ELSE IF ~Exists(f, s.path)
         THEN StoreResult(from_errno("ENOENT"), f, lk, <<"open">>, <<>>, {})
         ELSE IF IsDir(f, s.path)
         THEN StoreResult(from_errno("EISDIR"), f, lk, <<"open", "fstat", "read">>,
                          <<>>, {})
         ELSE IF ByteSize(f[s.path].data) >= MAX_FILE_SIZE
         THEN StoreResult("IoError", f, lk, <<"open", "fstat">>, <<>>, {})
         ELSE StoreResult("Success", f, lk, <<"open", "fstat", "read">>,
                          f[s.path].data, {})

\* Storage::read_file: open(O_RDONLY), fstat, refuse st_size > MAX_FILE_SIZE,
\* read.  A directory opens and read() on it fails with EISDIR.
Storage_read_file(f, path) ==
    IF validate_path(path) # "Success" THEN Rejected(f, validate_path(path))
    ELSE LET s == Resolve(f, <<>>, resolve_path(path))
             lk == <<<<path, "r">>>>
         IN
         IF s.err # "OK" THEN StoreResult(from_errno(s.err), f, lk, <<"open">>, <<>>, {})
         ELSE IF ~Exists(f, s.path)
         THEN StoreResult(from_errno("ENOENT"), f, lk, <<"open">>, <<>>, {})
         ELSE IF IsDir(f, s.path)
         THEN StoreResult(from_errno("EISDIR"), f, lk, <<"open", "fstat", "read">>,
                          <<>>, {})
         ELSE IF ByteSize(f[s.path].data) > MAX_FILE_SIZE
         THEN StoreResult("IoError", f, lk, <<"open", "fstat">>, <<>>, {})
         ELSE StoreResult("Success", f, lk, <<"open", "fstat", "read">>,
                          f[s.path].data, {})

\* Storage::write_file
Storage_write_file(f, path, buffer, t) ==
    IF validate_path(path) # "Success" THEN Rejected(f, validate_path(path))
    ELSE LET s == sys_open_write(f, resolve_path(path), TRUE, buffer, t) IN
         StoreResult(from_errno(s.err), s.fs, <<<<path, "w">>>>,
                     IF s.err = "OK" THEN <<"open", "write", "fsync">> ELSE <<"open">>,
                     <<>>, {})

\* An append_file that opens with O_TRUNC
Storage_append_file_trunc(f, path, buffer, t) ==
    IF validate_path(path) # "Success" THEN Rejected(f, validate_path(path))
    ELSE LET s == sys_open_write(f, resolve_path(path), TRUE, buffer, t) IN
         StoreResult(from_errno(s.err), s.fs, <<<<path, "w">>>>,
                     IF s.err = "OK" THEN <<"open", "write", "fsync">> ELSE <<"open">>,
                     <<>>, {})

\* Storage::append_file
Storage_append_file(f, path, buffer, t) ==
    IF validate_path(path) # "Success" THEN Rejected(f, validate_path(path))
    ELSE LET s == sys_open_write(f, resolve_path(path), FALSE, buffer, t) IN
         StoreResult(from_errno(s.err), s.fs, <<<<path, "w">>>>,
                     IF s.err = "OK" THEN <<"open", "write", "fsync">> ELSE <<"open">>,
                     <<>>, {})

\* A rename that copies: the old name stays
Storage_rename_copy(f, old_path, new_path, t) ==
    IF validate_path(old_path) # "Success" THEN Rejected(f, validate_path(old_path))
    ELSE IF validate_path(new_path) # "Success"
    THEN Rejected(f, validate_path(new_path))
    ELSE LET s == sys_rename(f, resolve_path(old_path), resolve_path(new_path), t) IN
         StoreResult(from_errno(s.err), s.fs @@ f,
                     <<<<old_path, "w">>, <<new_path, "w">>>>, <<"rename">>, <<>>, {})

\* Storage::rename
Storage_rename(f, old_path, new_path, t) ==
    IF validate_path(old_path) # "Success" THEN Rejected(f, validate_path(old_path))
    ELSE IF validate_path(new_path) # "Success"
    THEN Rejected(f, validate_path(new_path))
    ELSE LET s == sys_rename(f, resolve_path(old_path), resolve_path(new_path), t) IN
         StoreResult(from_errno(s.err), s.fs,
                     <<<<old_path, "w">>, <<new_path, "w">>>>, <<"rename">>, <<>>, {})

\* A delete_file that reports ENOENT like any other errno
Storage_delete_file_strict(f, path, t) ==
    IF validate_path(path) # "Success" THEN Rejected(f, validate_path(path))
    ELSE LET s == sys_unlink(f, resolve_path(path), t) IN
         StoreResult(from_errno(s.err), s.fs, <<<<path, "w">>>>, <<"unlink">>, <<>>, {})

\* Storage::delete_file
Storage_delete_file(f, path, t) ==
    IF validate_path(path) # "Success" THEN Rejected(f, validate_path(path))
    ELSE LET s == sys_unlink(f, resolve_path(path), t) IN
         StoreResult(IF s.err = "ENOENT" THEN "Success" ELSE from_errno(s.err),
                     s.fs, <<<<path, "w">>>>, <<"unlink">>, <<>>, {})

\* Storage::delete_directory
Storage_delete_directory(f, path, t) ==
    IF validate_path(path) # "Success" THEN Rejected(f, validate_path(path))
    ELSE LET s == sys_rmdir(f, resolve_path(path), t) IN
         StoreResult(IF s.err = "ENOENT" THEN "Success" ELSE from_errno(s.err),
                     s.fs, <<>>, <<"rmdir">>, <<>>, {})

\* Storage::list_directory: FileInfo{name, is_directory, size} of every entry
\* but "." and ".."
Storage_list_directory(f, path) ==
    IF validate_path(path) # "Success" THEN Rejected(f, validate_path(path))
    ELSE LET s == Resolve(f, <<>>, resolve_path(path)) IN
         IF s.err # "OK" THEN StoreResult(from_errno(s.err), f, <<>>, <<"opendir">>, <<>>, {})
         ELSE IF ~Exists(f, s.path)
         THEN StoreResult(from_errno("ENOENT"), f, <<>>, <<"opendir">>, <<>>, {})
         ELSE IF ~IsDir(f, s.path)
         THEN StoreResult(from_errno("ENOTDIR"), f, <<>>, <<"opendir">>, <<>>, {})
         ELSE StoreResult("Success", f, <<>>, <<"opendir", "readdir">>, <<>>,
                  {[name |-> q[Len(q)], is_directory |-> IsDir(f, q),
                    size |-> ByteSize(f[q].data)] : q \in Children(f, s.path)})

\* most Storage calls the model makes
MaxCalls == 3

\* A call of the Storage interface
StoreOp(name, path, new_path, buffer) ==
    [name |-> name, path |-> path, new_path |-> new_path, buffer |-> buffer]

\* the Storage member function the call names
Storage_call(f, op, t) ==
    CASE op.name = "create_file"      -> Storage_create_file(f, op.path, t)
      [] op.name = "create_directory" -> Storage_create_directory(f, op.path, t)
      [] op.name = "read_file"        -> Storage_read_file(f, op.path)
      [] op.name = "write_file"       -> Storage_write_file(f, op.path, op.buffer, t)
      [] op.name = "append_file"      -> Storage_append_file(f, op.path, op.buffer, t)
      [] op.name = "rename"           -> Storage_rename(f, op.path, op.new_path, t)
      [] op.name = "delete_file"      -> Storage_delete_file(f, op.path, t)
      [] op.name = "delete_directory" -> Storage_delete_directory(f, op.path, t)
      [] op.name = "list_directory"   -> Storage_list_directory(f, op.path)

\* `again` says that the call repeats the call before it
NoCall == [op |-> StoreOp("none", <<>>, <<>>, <<>>), code |-> "none", locks |-> <<>>,
           syscalls |-> <<>>, data |-> <<>>, entries |-> {}, again |-> FALSE]

\* no run of write_file / append_file is being followed
NoRun == [live |-> FALSE, path |-> <<>>, bytes |-> <<>>]

\* The run of successful write_file / append_file calls on one path after
\* call `op` returned `code`: a write_file starts or continues a run with its
\* buffer, an append_file continues one or starts one on a missing file, a
\* read_file leaves it, anything else ends it
NextRun(run, f, op, code) ==
    IF op.name = "read_file" THEN run
    ELSE IF op.name \notin {"write_file", "append_file"} \/ code # "Success" THEN NoRun
    ELSE IF op.name = "write_file"
    THEN [live |-> TRUE, path |-> op.path, bytes |-> op.buffer]
    ELSE IF run.live /\ run.path = op.path
    THEN [run EXCEPT !.bytes = @ \o op.buffer]
    ELSE IF ~Exists(f, Resolve(f, <<>>, resolve_path(op.path)).path)
    THEN [live |-> TRUE, path |-> op.path, bytes |-> op.buffer]
    ELSE NoRun

\* A thread calls one operation of the Storage and it returns
StoreCall(op) ==
    /\ ncalls < MaxCalls
    /\ LET r == Storage_call(sfs, op, now) IN
       /\ sfs' = r.fs
       /\ scall' = [op |-> op, code |-> r.code, locks |-> r.locks,
                    syscalls |-> r.syscalls, data |-> r.data, entries |-> r.entries,
                    again |-> (op = scall.op)]
       /\ wa' = NextRun(wa, sfs, op, r.code)
    /\ ncalls' = ncalls + 1
    /\ UNCHANGED <<replVars, submitVars, rpcVars, lockVars, codecVars, snapVars,
                   shutVars, restVars>>

---------------------------------------------------------------------------
(* FSOperation::serialize / deserialize: the bytes of a log entry *)

\* A 32-bit length written most significant byte first
BE32(n) ==
    <<(n \div 16777216) % 256, (n \div 65536) % 256, (n \div 256) % 256, n % 256>>

\* (len >> 0) & 0xFF, (len >> 8) & 0xFF, (len >> 16) & 0xFF, (len >> 24) & 0xFF
LE32(n) ==
    <<n % 256, (n \div 256) % 256, (n \div 65536) % 256, (n \div 16777216) % 256>>

\* len |= bytes[pos++] << 0; ... << 8; ... << 16; ... << 24: the uint32_t
\* lo + 65536 * hi, kept as its two halves
ReadLE32(bytes, pos) ==
    [lo |-> bytes[pos + 1] + 256 * bytes[pos + 2],
     hi |-> bytes[pos + 3] + 256 * bytes[pos + 4]]

\* An FSOperation as the codec sees it: the type byte, the bytes of the path
\* string and the bytes of the data
WireOp(type, path, data) == [type |-> type, path |-> path, data |-> data]

\* FSOperation::serialize.  The sizes of the model are below 2^31, so the
\* casts to uint32_t keep them.
FSOperation_serialize(op) ==
    LET path_len == Len(op.path)
        data_len == Len(op.data)
    IN <<op.type>> \o LE32(path_len) \o op.path \o LE32(data_len)
         \o (IF data_len > 0 THEN op.data ELSE <<>>)

NoWireOp == WireOp(0, <<>>, <<>>)

\* FSOperation::deserialize.  pos counts the bytes consumed, as in the code;
\* the type byte is cast to FSOperationType without a check.  The sums are
\* size_t sums and do not wrap; a buffer of the model is shorter than 65536
\* bytes, so a length with a high half exceeds it.
FSOperation_deserialize(bytes) ==
    LET size == Len(bytes)
        nullopt == [has_value |-> FALSE, value |-> NoWireOp]
    IN
    IF size < 9 THEN nullopt
    ELSE LET path_len == ReadLE32(bytes, 1) IN
         IF path_len.hi > 0 \/ 5 + path_len.lo > size THEN nullopt
         ELSE LET pos == 5 + path_len.lo IN
              IF pos + 4 > size THEN nullopt
              ELSE LET data_len == ReadLE32(bytes, pos) IN
                   IF data_len.hi > 0 \/ pos + 4 + data_len.lo # size THEN nullopt
                   ELSE [has_value |-> TRUE,
                         value |-> WireOp(bytes[1],
                                          SubSeq(bytes, 6, 5 + path_len.lo),
                                          SubSeq(bytes, pos + 5, size))]

\* FSOperationType of a type byte; a byte outside 1..7 is no enumerator
TypeOfByte(b) ==
    CASE b = 1 -> "CREATE_FILE"
      [] b = 2 -> "WRITE_FILE"
      [] b = 3 -> "APPEND_FILE"
      [] b = 4 -> "DELETE_FILE"
      [] b = 5 -> "CREATE_DIR"
      [] b = 6 -> "DELETE_DIR"
      [] b = 7 -> "RENAME"
      [] OTHER -> "none"

\* The character of a byte of a path
Chr(b) ==
    CASE b = 46  -> "."
      [] b = 100 -> "d"
      [] b = 102 -> "f"
      [] b = 103 -> "g"
      [] OTHER   -> "?"

\* The components of a path string given by its bytes: split at '/'
RECURSIVE StrOfBytes(_)
StrOfBytes(bytes) ==
    LET n == Len(bytes) IN
    IF n = 0 THEN ""
    ELSE IF n = 1 THEN Chr(bytes[1])
    ELSE StrOfBytes(SubSeq(bytes, 1, n \div 2))
            \o StrOfBytes(SubSeq(bytes, n \div 2 + 1, n))

PathOfBytes(bytes) ==
    LET n == Len(bytes)
        slashes == {i \in 1..n : bytes[i] = 47}
        cut(k) == IF k = 0 THEN 0
                  ELSE IF k > Cardinality(slashes) THEN n + 1
                  ELSE CHOOSE i \in slashes : Cardinality({j \in slashes : j < i}) = k - 1
    IN IF bytes = <<>> THEN <<>>
       ELSE [k \in 1..(Cardinality(slashes) + 1) |->
                StrOfBytes(SubSeq(bytes, cut(k - 1) + 1, cut(k) - 1))]

\* The decoded operation as LocalStorageEngine::apply_operation reads it:
\* op.path is a path, and so is op.data of a RENAME
EngineOp(op) ==
    FSOperation(TypeOfByte(op.type), PathOfBytes(op.path),
                IF op.type = 7 THEN PathOfBytes(op.data) ELSE op.data)

NoWire == [stage |-> "idle", op |-> NoWireOp, bytes |-> <<>>,
           dec |-> [has_value |-> FALSE, value |-> NoWireOp],
           status |-> "none", pre |-> FreshFs(ThisNode), n |-> 0]

\* submit_operation serializes an operation into the data of a log entry
Serialize(op) ==
    /\ wire.stage # "encoded"
    /\ wire.n < MaxLog
    /\ wire' = [NoWire EXCEPT !.stage = "encoded", !.op = op,
                              !.bytes = FSOperation_serialize(op), !.n = wire.n]
    /\ UNCHANGED <<replVars, submitVars, rpcVars, lockVars, storeVars, snapVars,
                   shutVars, restVars>>

\* A log entry arrives whose data are any bytes
Arrive(bytes) ==
    /\ wire.stage # "encoded"
    /\ wire.n < MaxLog
    /\ wire' = [NoWire EXCEPT !.stage = "encoded", !.bytes = bytes, !.n = wire.n]
    /\ UNCHANGED <<replVars, submitVars, rpcVars, lockVars, storeVars, snapVars,
                   shutVars, restVars>>

\* RaftFilesystemService::on_apply, one iteration, on the bytes of the entry:
\* deserialize, then RAFT_ERROR or apply_operation and errno_to_status
ApplyBytes ==
    /\ wire.stage = "encoded"
    /\ LET op_opt == FSOperation_deserialize(wire.bytes)
           result == apply_operation(fs[ThisNode], ThisNode, EngineOp(op_opt.value), now)
       IN /\ fs' = IF op_opt.has_value THEN [fs EXCEPT ![ThisNode] = result.fs] ELSE fs
          /\ wire' = [wire EXCEPT !.stage = "applied", !.dec = op_opt,
                         !.status = IF op_opt.has_value THEN errno_to_status(result.err)
                                    ELSE "RAFT_ERROR",
                         !.pre = fs[ThisNode], !.n = @ + 1]
    /\ UNCHANGED <<log, applied, results, now, rd, submitVars, rpcVars, lockVars,
                   storeVars, snapVars, shutVars,
                   restVars>>

---------------------------------------------------------------------------
(* RaftFilesystemService::on_snapshot_save / on_snapshot_load *)

\* Names the shell's * does not match: those that begin with '.'
DotNames == {".h"}

\* What "cp -r base/* snapshot/data/" copies, as paths relative to base: the
\* entries of base that * matches, each with everything below it
GlobCopy(f, r) ==
    LET t == Tree(f, r) IN
    [p \in {q \in DOMAIN t : q[1] \notin DotNames} |-> t[p]]

\* What "rm -rf base/*" leaves on the host: everything but the entries of
\* base that * matches and what is below them
RmGlob(f, r) ==
    LET b == base_path_(r)
        gone == {q \in DOMAIN f : /\ IsPrefix(b, q) /\ q # b
                                  /\ q[Len(b) + 1] \notin DotNames}
    IN Remove(f, gone)

\* "cp -r snapshot/data/* base/" with something to copy: the copies are
\* written at time t
CpInto(f, r, data, t) ==
    LET b == base_path_(r)
        new == [q \in {b \o p : p \in DOMAIN data} |->
                   LET n == data[SubSeq(q, Len(b) + 1, Len(q))] IN
                   [kind |-> n.kind, data |-> n.data, mtime |-> t]]
    IN Touch(new @@ f, b, t)

NoSnapshot == [saved |-> FALSE, data |-> <<>>, T |-> <<>>, rc |-> "none",
               after |-> <<>>]

\* on_snapshot_save on replica r: the snapshot's data directory is created
\* and filled by cp; a cp that fails (no entry for * to match) is ignored.
\* T records the tree of the store at that moment.
OnSnapshotSave(r) ==
    /\ snap' = [NoSnapshot EXCEPT !.saved = TRUE, !.data = GlobCopy(fs[r], r),
                                  !.T = Tree(fs[r], r)]
    /\ UNCHANGED <<replVars, submitVars, rpcVars, lockVars, storeVars, codecVars,
                   shutVars, restVars>>

\* on_snapshot_load on replica r: "rm -rf base/* && cp -r data/* base/";
\* with an empty data directory * matches nothing, cp fails and the load
\* returns -1.  rc and after record the return value and the tree left.
OnSnapshotLoad(r) ==
    /\ snap.saved
    /\ LET removed == RmGlob(fs[r], r)
           copied == DOMAIN snap.data # {}
           f == IF copied THEN CpInto(removed, r, snap.data, now) ELSE removed
       IN /\ fs' = [fs EXCEPT ![r] = f]
          /\ snap' = [snap EXCEPT !.rc = IF copied THEN "0" ELSE "-1",
                                  !.after = Tree(f, r)]
    /\ UNCHANGED <<log, applied, results, now, rd, submitVars, rpcVars, lockVars,
                   storeVars, codecVars, shutVars,
                   restVars>>

---------------------------------------------------------------------------
(* The server process: TcpServer's threads and shutdown_server (main.cc) *)

\* the connection threads the model lets the accept thread create
ConnThreads == {"k1", "k2"}

otherVars == <<replVars, submitVars, rpcVars, lockVars, storeVars, codecVars, snapVars,
               restVars>>

\* TcpServer::accept_loop: accept returned a connection; add_connection and
\* connection_threads_.emplace_back.  A thread blocked in accept when the
\* flag is set still takes a connection that arrives before the socket closes.
AcceptConnection(t) ==
    /\ accept_thread_ = "loop" /\ server_fd_ = "open"
    /\ connection_threads_[t] = "none"
    /\ connection_threads_' = [connection_threads_ EXCEPT ![t] = "recv"]
    /\ connected_' = [connected_ EXCEPT ![t] = TRUE]
    /\ UNCHANGED <<should_stop_, server_fd_, accept_thread_, raft_node_, proposals,
                   mainpc, otherVars>>

\* accept_loop leaves its loop: should_stop_ is set, at the loop head or
\* after accept failed on the closed socket
AcceptExit ==
    /\ accept_thread_ = "loop" /\ should_stop_
    /\ accept_thread_' = "exited"
    /\ UNCHANGED <<should_stop_, server_fd_, connection_threads_, connected_,
                   raft_node_, proposals, mainpc, otherVars>>

\* RpcServer::handle_connection received a write command;
\* StateMachine::apply_write_command hands the task to raft_node_->apply and
\* blocks in closure_ptr->wait()
WriteRequest(t) ==
    /\ connection_threads_[t] = "recv" /\ connected_[t]
    /\ raft_node_ = "up"
    /\ connection_threads_' = [connection_threads_ EXCEPT ![t] = "wait"]
    /\ proposals' = proposals \cup {t}
    /\ UNCHANGED <<should_stop_, server_fd_, accept_thread_, connected_, raft_node_,
                   mainpc, otherVars>>

\* The Raft node completes the task (committed and applied, or failed) and
\* runs its closure: wait() returns
ClosureRun(t) ==
    /\ t \in proposals /\ raft_node_ = "up"
    /\ proposals' = proposals \ {t}
    /\ connection_threads_' = [connection_threads_ EXCEPT ![t] = "reply"]
    /\ UNCHANGED <<should_stop_, server_fd_, accept_thread_, connected_, raft_node_,
                   mainpc, otherVars>>

\* handle_connection sends the response and tests conn->is_connected() at the
\* head of its loop; TcpServer::handle_connection closes the connection when
\* the handler returns
SendResponse(t) ==
    /\ connection_threads_[t] = "reply"
    /\ connection_threads_' =
           [connection_threads_ EXCEPT ![t] = IF connected_[t] THEN "recv" ELSE "exited"]
    /\ UNCHANGED <<should_stop_, server_fd_, accept_thread_, connected_, raft_node_,
                   proposals, mainpc, otherVars>>

\* receive_exact fails (peer closed, socket timeout, or the connection was
\* closed): connected_ = false, the handler breaks out of its loop
ReceiveFails(t) ==
    /\ connection_threads_[t] = "recv"
    /\ connection_threads_' = [connection_threads_ EXCEPT ![t] = "exited"]
    /\ connected_' = [connected_ EXCEPT ![t] = FALSE]
    /\ UNCHANGED <<should_stop_, server_fd_, accept_thread_, raft_node_, proposals,
                   mainpc, otherVars>>

\* shutdown_server -> RpcServer::stop -> TcpServer::stop: should_stop_ = true,
\* running_ = false
Stop_flag ==
    /\ mainpc = "run"
    /\ should_stop_' = TRUE
    /\ mainpc' = "flag"
    /\ UNCHANGED <<server_fd_, accept_thread_, connection_threads_, connected_,
                   raft_node_, proposals, otherVars>>

\* TcpServer::stop: close_socket()
Stop_close_socket ==
    /\ mainpc = "flag"
    /\ server_fd_' = "closed"
    /\ mainpc' = "closed"
    /\ UNCHANGED <<should_stop_, accept_thread_, connection_threads_, connected_,
                   raft_node_, proposals, otherVars>>

\* TcpServer::stop: accept_thread_->join() returns once the thread has exited
Stop_join_accept ==
    /\ mainpc = "closed" /\ accept_thread_ = "exited"
    /\ accept_thread_' = "joined"
    /\ mainpc' = "accepted"
    /\ UNCHANGED <<should_stop_, server_fd_, connection_threads_, connected_,
                   raft_node_, proposals, otherVars>>

\* TcpServer::stop: cleanup_connections() closes every active connection
Stop_cleanup_connections ==
    /\ mainpc = "accepted"
    /\ connected_' = [t \in ConnThreads |-> FALSE]
    /\ mainpc' = "cleaned"
    /\ UNCHANGED <<should_stop_, server_fd_, accept_thread_, connection_threads_,
                   raft_node_, proposals, otherVars>>

\* TcpServer::stop: thread.join() of every connection thread; returns once
\* each of them has left its handler
Stop_join_connections ==
    /\ mainpc = "cleaned"
    /\ \A t \in ConnThreads : connection_threads_[t] \in {"none", "exited"}
    /\ connection_threads_' =
           [t \in ConnThreads |->
               IF connection_threads_[t] = "exited" THEN "joined" ELSE "none"]
    /\ mainpc' = "joined"
    /\ UNCHANGED <<should_stop_, server_fd_, accept_thread_, connected_, raft_node_,
                   proposals, otherVars>>

\* shutdown_server -> StateMachine::shutdown: raft_node_->shutdown, join,
\* reset; the node fails the tasks it still holds and runs their closures
StateMachine_shutdown ==
    /\ mainpc = "joined"
    /\ raft_node_' = "down"
    /\ proposals' = {}
    /\ connection_threads_' =
           [t \in ConnThreads |->
               IF t \in proposals THEN "reply" ELSE connection_threads_[t]]
    /\ mainpc' = "done"
    /\ UNCHANGED <<should_stop_, server_fd_, accept_thread_, connected_, otherVars>>

ShutInit ==
    /\ should_stop_ = FALSE
    /\ server_fd_ = "open"
    /\ accept_thread_ = "loop"
    /\ connection_threads_ = [t \in ConnThreads |-> "none"]
    /\ connected_ = [t \in ConnThreads |-> FALSE]
    /\ raft_node_ = "up"
    /\ proposals = {}
    /\ mainpc = "run"

---------------------------------------------------------------------------
(* FSOperationClosure / RaftClosure: Run(), wait() and who touches the fields *)

notHsVars == <<replVars, submitVars, rpcVars, lockVars, baseVars, checkVars, sockVars,
               watchVars>>

\* FSOperationClosure(): result_status(OK), done(false); nrun counts the
\* calls of Run()
HsNew == [done |-> FALSE, result_status |-> "OK", nrun |-> 0]

\* the statuses on_apply stores in the closure
HsStatuses == {"OK", "NOT_FOUND", "RAFT_ERROR"}

\* submit_operation: new FSOperationClosure, node_->apply(task)
HsApply(c) ==
    /\ hwait[c] = "idle"
    /\ hcl' = [hcl EXCEPT ![c] = HsNew]
    /\ hwait' = [hwait EXCEPT ![c] = "applied"]
    /\ hlib' = [hlib EXCEPT ![c] = "pending"]
    /\ UNCHANGED <<hret, notHsVars>>

\* A wait() that calls cond.wait(lock) without testing done first
HsWaitEnter_untested(c) ==
    /\ hwait[c] = "applied"
    /\ hwait' = [hwait EXCEPT ![c] = "blocked"]
    /\ UNCHANGED <<hcl, hlib, hret, notHsVars>>

\* wait(): lock the mutex; while (!done) cond.wait(lock).  The test and the
\* release of the mutex inside cond.wait are one step against Run().
HsWaitEnter(c) ==
    /\ hwait[c] = "applied"
    /\ hwait' = [hwait EXCEPT ![c] = IF hcl[c].done THEN "returned" ELSE "blocked"]
    /\ UNCHANGED <<hcl, hlib, hret, notHsVars>>

\* cond.wait returns without a notify, as a condition variable may
HsSpurious(c) ==
    /\ hwait[c] = "blocked"
    /\ hwait' = [hwait EXCEPT ![c] = "woken"]
    /\ UNCHANGED <<hcl, hlib, hret, notHsVars>>

\* cond.wait has returned with the mutex held: the loop tests done again
HsRecheck(c) ==
    /\ hwait[c] = "woken"
    /\ hwait' = [hwait EXCEPT ![c] = IF hcl[c].done THEN "returned" ELSE "blocked"]
    /\ UNCHANGED <<hcl, hlib, hret, notHsVars>>

\* submit_operation after done->wait(): status = done->result_status;
\* delete done
HsRead(c) ==
    /\ hwait[c] = "returned"
    /\ hret' = [hret EXCEPT ![c] = hcl[c].result_status]
    /\ hwait' = [hwait EXCEPT ![c] = "read"]
    /\ UNCHANGED <<hcl, hlib, notHsVars>>

\* on_apply, the body of one iteration: done->result_status = ...
HsOnApplyWrite(c, status) ==
    /\ hlib[c] = "pending"
    /\ hcl' = [hcl EXCEPT ![c].result_status = status]
    /\ hlib' = [hlib EXCEPT ![c] = "written"]
    /\ UNCHANGED <<hwait, hret, notHsVars>>

\* ~AsyncClosureGuard at the end of the iteration, or the library failing a
\* task that never reaches on_apply: Run() is handed to a bthread
HsGuard(c) ==
    /\ hlib[c] \in {"pending", "written"}
    /\ hlib' = [hlib EXCEPT ![c] = "queued"]
    /\ UNCHANGED <<hcl, hwait, hret, notHsVars>>

\* FSOperationClosure::Run under the mutex: done = true; cond.notify_one()
HsRun(c) ==
    /\ hlib[c] = "queued"
    /\ hcl' = [hcl EXCEPT ![c].done = TRUE, ![c].nrun = @ + 1]
    /\ hwait' = [hwait EXCEPT ![c] = IF @ = "blocked" THEN "woken" ELSE @]
    /\ hlib' = [hlib EXCEPT ![c] = "ran"]
    /\ UNCHANGED <<hret, notHsVars>>

HsInit ==
    /\ hcl = [c \in Callers |-> HsNew]
    /\ hwait = [c \in Callers |-> "idle"]
    /\ hlib = [c \in Callers |-> "none"]
    /\ hret = [c \in Callers |-> "none"]

---------------------------------------------------------------------------
(* TcpConnection: the socket descriptor, connected_, and close() *)

notSockVars == <<replVars, submitVars, rpcVars, lockVars, baseVars, checkVars, hsVars,
                 watchVars>>

\* the descriptor accept() returned, as socket_fd_ holds it
AcceptedFd == 3

\* no TcpConnection yet
NoConnection == [socket_fd_ |-> -1, connected_ |-> FALSE, hpc |-> "none", closes |-> 0]

\* TcpConnection::close: if (connected_.exchange(false)) { if (socket_fd_ >= 0)
\* { shutdown; ::close; socket_fd_ = -1; } }
TcpConnection_close(conn) ==
    IF conn.connected_
    THEN IF conn.socket_fd_ >= 0
         THEN [conn EXCEPT !.connected_ = FALSE, !.socket_fd_ = -1, !.closes = @ + 1]
         ELSE [conn EXCEPT !.connected_ = FALSE]
    ELSE conn

\* accept_loop: make_shared<TcpConnection>(client_fd), and its handler thread
TcAccept(k) ==
    /\ tc[k].hpc = "none"
    /\ tc' = [tc EXCEPT ![k] = [socket_fd_ |-> AcceptedFd, connected_ |-> TRUE,
                                hpc |-> "recv", closes |-> 0]]
    /\ UNCHANGED notSockVars

\* handle_connection: receive_message returned a request; it is processed
\* and the response is about to be sent
TcReceive(k) ==
    /\ tc[k].hpc = "recv"
    /\ tc[k].connected_ /\ tc[k].socket_fd_ >= 0
    /\ tc' = [tc EXCEPT ![k].hpc = "send"]
    /\ UNCHANGED notSockVars

\* receive_exact: !connected_ || socket_fd_ < 0 returns false at once; recv
\* returning 0 or an error stores connected_ = false and returns false.  The
\* handler leaves its loop.
TcReceiveFails(k) ==
    /\ tc[k].hpc = "recv"
    /\ tc' = [tc EXCEPT ![k].connected_ = FALSE, ![k].hpc = "closing"]
    /\ UNCHANGED notSockVars

\* receive_message reads a length prefix it refuses: the handler leaves its
\* loop with connected_ untouched
TcFrameRefused(k) ==
    /\ tc[k].hpc = "recv"
    /\ tc[k].connected_ /\ tc[k].socket_fd_ >= 0
    /\ tc' = [tc EXCEPT ![k].hpc = "closing"]
    /\ UNCHANGED notSockVars

\* TcpConnection::send: ok leaves connected_ alone; a failed ::send stores
\* connected_ = false.  Then the loop head tests conn->is_connected().
TcSend(k, ok) ==
    /\ tc[k].hpc = "send"
    /\ LET sent == ok /\ tc[k].connected_ /\ tc[k].socket_fd_ >= 0
           conn == IF sent \/ ~tc[k].connected_ \/ tc[k].socket_fd_ < 0
                   THEN tc[k] ELSE [tc[k] EXCEPT !.connected_ = FALSE]
       IN tc' = [tc EXCEPT ![k] =
                    [conn EXCEPT !.hpc = IF conn.connected_ THEN "recv" ELSE "closing"]]
    /\ UNCHANGED notSockVars

\* TcpServer::handle_connection after the handler returned: conn->close();
\* remove_connection(conn)
TcHandlerClose(k) ==
    /\ tc[k].hpc = "closing"
    /\ tc' = [tc EXCEPT ![k] = [TcpConnection_close(@) EXCEPT !.hpc = "closed"]]
    /\ UNCHANGED notSockVars

\* TcpServer::cleanup_connections on the stopping thread: conn->close() of a
\* connection whose handler is still running
TcCleanup(k) ==
    /\ tc[k].hpc \in {"recv", "send", "closing"}
    /\ tc[k].connected_
    /\ tc' = [tc EXCEPT ![k] = TcpConnection_close(@)]
    /\ UNCHANGED notSockVars

\* ~TcpConnection when the last shared_ptr goes: close()
TcDestroy(k) ==
    /\ tc[k].hpc = "closed"
    /\ tc' = [tc EXCEPT ![k] = [TcpConnection_close(@) EXCEPT !.hpc = "destroyed"]]
    /\ UNCHANGED notSockVars

TcInit == tc = [k \in ConnThreads |-> NoConnection]

---------------------------------------------------------------------------
(* Watcher: the inotify thread, its watch maps and handleEvent *)

notWatchVars == <<replVars, submitVars, rpcVars, lockVars, baseVars, checkVars, hsVars,
                  sockVars>>

\* root_watch_dir, and the names events carry; a path is the sequence of its
\* components
root_watch_dir == <<"r">>
EventNames == {"x"}

\* inotify_add_watch: the descriptor the kernel gives a directory.  The
\* kernel has watches for the root and its subdirectory; for any other
\* path the call fails with -1.
inotify_add_watch(path) ==
    IF path = root_watch_dir THEN 1
    ELSE IF path = root_watch_dir \o <<"x">> THEN 2
    ELSE -1
WatchDescriptors == {inotify_add_watch(root_watch_dir)}
                    \cup {inotify_add_watch(root_watch_dir \o <<n>>) : n \in EventNames}

EventMasks == {"IN_CREATE", "IN_DELETE", "IN_MODIFY", "IN_MOVED_FROM", "IN_MOVED_TO",
               "IN_DELETE_SELF"}
Cookies == {"k"}

\* struct inotify_event: name = "" is len == 0
InotifyEvents ==
    [wd : WatchDescriptors, mask : EventMasks, is_dir : BOOLEAN,
     name : EventNames \cup {""}, cookie : Cookies]

\* events::Event as the callback gets it
Event(type, path, is_dir, old_path) ==
    [type |-> type, path |-> path, is_dir |-> is_dir, old_path |-> old_path]
NoEvent == Event("none", <<>>, FALSE, <<>>)

\* Watcher::getPathFromWD: "" when the descriptor is not in wd_to_path
getPathFromWD(wd) == IF wd \in DOMAIN wd_to_path THEN wd_to_path[wd] ELSE <<>>

\* full_path = dir_path + "/" + event->name
FullPath(event) == getPathFromWD(event.wd) \o <<event.name>>

\* Watcher::addWatch of a directory without subdirectories: the two maps
\* after it
addWatch(path) ==
    LET wd == inotify_add_watch(path)
    IN IF wd < 0 THEN [wd_to_path |-> wd_to_path, path_to_wd |-> path_to_wd]
       ELSE [wd_to_path |-> (wd :> path) @@ wd_to_path,
             path_to_wd |-> (path :> wd) @@ path_to_wd]

\* watchLoop: read() returned an event and handleEvent is called with it
WatchLoopRead(event) ==
    /\ wpc = "loop"
    /\ wev' = event
    /\ wpc' = "handleEvent"
    /\ UNCHANGED <<wd_to_path, path_to_wd, pending_moves, watch_map_mutex, delivered,
                   notWatchVars>>

\* Watcher::handleEvent, every path through it that returns
HandleEvent ==
    /\ wpc = "handleEvent"
    /\ wpc' = "loop"
    /\ LET full_path == FullPath(wev)
           is_dir == wev.is_dir
       IN IF wev.name = "" \/ getPathFromWD(wev.wd) = <<>>
             \/ wev.mask = "IN_DELETE_SELF"
          THEN UNCHANGED <<wd_to_path, path_to_wd, pending_moves, delivered>>
          ELSE IF wev.mask = "IN_CREATE"
          THEN /\ wd_to_path' = IF is_dir THEN addWatch(full_path).wd_to_path
                                ELSE wd_to_path
               /\ path_to_wd' = IF is_dir THEN addWatch(full_path).path_to_wd
                                ELSE path_to_wd
               /\ delivered' = Event("CREATED", full_path, is_dir, <<>>)
               /\ UNCHANGED pending_moves
          ELSE IF wev.mask = "IN_DELETE"
          THEN /\ ~(is_dir /\ full_path \in DOMAIN path_to_wd)
               /\ delivered' = Event("DELETED", full_path, is_dir, <<>>)
               /\ UNCHANGED <<wd_to_path, path_to_wd, pending_moves>>
          ELSE IF wev.mask = "IN_MODIFY"
          THEN /\ delivered' = Event("MODIFIED", full_path, is_dir, <<>>)
               /\ UNCHANGED <<wd_to_path, path_to_wd, pending_moves>>
          ELSE IF wev.mask = "IN_MOVED_FROM"
          THEN /\ pending_moves' =
                      (wev.cookie :> [from_path |-> full_path, is_dir |-> is_dir])
                          @@ pending_moves
               /\ UNCHANGED <<wd_to_path, path_to_wd, delivered>>
          ELSE /\ wd_to_path' = IF is_dir THEN addWatch(full_path).wd_to_path
                                ELSE wd_to_path
               /\ path_to_wd' = IF is_dir THEN addWatch(full_path).path_to_wd
                                ELSE path_to_wd
               /\ IF wev.cookie \in DOMAIN pending_moves
                  THEN /\ delivered' = Event("MOVED", full_path, is_dir,
                                             pending_moves[wev.cookie].from_path)
                       /\ pending_moves' = [c \in DOMAIN pending_moves \ {wev.cookie}
                                                |-> pending_moves[c]]
                  ELSE /\ delivered' = Event("CREATED", full_path, is_dir, <<>>)
                       /\ UNCHANGED pending_moves
    /\ UNCHANGED <<watch_map_mutex, wev, notWatchVars>>

\* Watcher::handleEvent on IN_DELETE of a directory found in path_to_wd: with
\* its lock_guard on watch_map_mutex alive it calls removeWatch, whose first
\* statement is a lock_guard on the same std::mutex.  Locking a std::mutex the
\* thread owns is undefined: the thread blocks for ever, or lock() throws
\* std::system_error out of the thread function.
HandleEventRemoveWatch ==
    /\ wpc = "handleEvent"
    /\ wev.name # "" /\ getPathFromWD(wev.wd) # <<>>
    /\ wev.mask = "IN_DELETE" /\ wev.is_dir
    /\ FullPath(wev) \in DOMAIN path_to_wd
    /\ watch_map_mutex' = TRUE
    /\ \E outcome \in {"blocked", "terminated"} : wpc' = outcome
    /\ UNCHANGED <<wd_to_path, path_to_wd, pending_moves, wev, delivered, notWatchVars>>

\* watchLoop after the events: a pending move older than five seconds is
\* delivered as DELETED and erased
WatchSweep(cookie) ==
    /\ wpc = "loop"
    /\ cookie \in DOMAIN pending_moves
    /\ delivered' = Event("DELETED", pending_moves[cookie].from_path,
                          pending_moves[cookie].is_dir, <<>>)
    /\ pending_moves' = [c \in DOMAIN pending_moves \ {cookie} |-> pending_moves[c]]
    /\ UNCHANGED <<wd_to_path, path_to_wd, watch_map_mutex, wpc, wev, notWatchVars>>

\* Watcher::start: addWatch(root_watch_dir), then the watch thread runs
WatchInit ==
    /\ wd_to_path = (inotify_add_watch(root_watch_dir) :> root_watch_dir)
    /\ path_to_wd = (root_watch_dir :> inotify_add_watch(root_watch_dir))
    /\ pending_moves = <<>>
    /\ watch_map_mutex = FALSE
    /\ wpc = "loop"
    /\ wev = [wd |-> inotify_add_watch(root_watch_dir), mask |-> "IN_MODIFY",
              is_dir |-> FALSE, name |-> "", cookie |-> "k"]
    /\ delivered = NoEvent

---------------------------------------------------------------------------
(* Initial state and the specifications *)

\* LocalStorageEngine::initialize on every replica; nothing committed yet
ReplInit ==
    /\ log = <<>>
    /\ applied = [r \in Replicas |-> 0]
    /\ fs = [r \in Replicas |-> FreshFs(r)]
    /\ results = [r \in Replicas |-> <<>>]
    /\ now = 0
    /\ rd = NoRead

\* RaftFilesystemService(): is_leader_(false), leader_term_(-1); the Raft
\* node has just started and knows no leader
SubmitInit ==
    /\ is_leader_ = FALSE
    /\ leader_term_ = -1
    /\ raftTerm = 0
    /\ raftLeader = NoPeer
    /\ cbq = <<>>
    /\ fsm = FsmIdle
    /\ tasks = {}
    /\ closure = [c \in Callers |-> NewClosure]
    /\ spc = [c \in Callers |-> "idle"]
    /\ sop = [c \in Callers |-> Garbage]
    /\ sret = [c \in Callers |-> NoReturn]

\* A connection has just been accepted; StateMachine(): is_leader_(false)
RpcInit ==
    /\ inbox = <<>>
    /\ hpc = "recv"
    /\ cur = NoFrame
    /\ nread = 0
    /\ outbox = <<>>
    /\ calls = <<>>
    /\ smLeader = FALSE

\* FileLocker(): an empty table
LockInit ==
    /\ locks_ = <<>>
    /\ tpc = [t \in Threads |-> "idle"]
    /\ top = [t \in Threads |-> NoOp]
    /\ held = [t \in Threads |-> {}]

\* Storage::init on a host that holds nothing else
StoreInit ==
    /\ sfs = (<<>> :> DirNode(0)) @@ (StoreBase :> DirNode(0))
    /\ scall = NoCall
    /\ ncalls = 0
    /\ wa = NoRun

CodecInit == wire = NoWire

SnapInit == snap = NoSnapshot

CheckInit == checked = [c \in Callers |-> -1]

Init ==
    /\ ReplInit /\ SubmitInit /\ RpcInit /\ LockInit /\ StoreInit /\ CodecInit /\ SnapInit
    /\ ShutInit /\ CheckInit /\ HsInit /\ TcInit /\ WatchInit

\* Entries committed to the log when the claims are about apply: every kind
\* of command, on a directory d, a file f in it and a file g; a rename
\* without a target; a path that leaves the base directory; bytes that do
\* not decode
ApplyEntries ==
    {FSOperation("CREATE_DIR", <<"d">>, <<>>),
     FSOperation("CREATE_FILE", <<"d", "f">>, <<>>),
     FSOperation("WRITE_FILE", <<"g">>, <<"x">>),
     FSOperation("APPEND_FILE", <<"d", "f">>, <<"y">>),
     FSOperation("DELETE_FILE", <<"d", "f">>, <<>>),
     FSOperation("DELETE_DIR", <<"d">>, <<>>),
     FSOperation("RENAME", <<"d">>, <<"g">>),
     FSOperation("RENAME", <<"g">>, <<"d", "f">>),
     FSOperation("RENAME", <<"g">>, <<>>),
     FSOperation("CREATE_FILE", <<"..", "data1", "g">>, <<>>),
     FSOperation("CREATE_FILE", <<"..", "g">>, <<>>),
     Garbage}

NextApply ==
    \/ \E data \in ApplyEntries : Commit(data)
    \/ \E r \in Replicas : OnApply(r)

SpecApply == Init /\ [][NextApply]_vars

\* Entries and paths when the claims are about reads: paths inside the base
\* directory only
ReadEntries ==
    {FSOperation("CREATE_DIR", <<"d">>, <<>>),
     FSOperation("WRITE_FILE", <<"g">>, <<"x">>)}
ReadPaths == {<<"d">>, <<"g">>}

NextReads ==
    \/ \E data \in ReadEntries : Commit(data)
    \/ \E r \in Replicas : OnApply(r)
    \/ Tick
    \/ \E r \in Replicas, rop \in ReadOps, path \in ReadPaths : Read(r, rop, path)

SpecReads == Init /\ [][NextReads]_vars

\* Operations the callers of the write API submit; the last stands for one
\* whose path has 2^32 bytes or more: serialize casts its length to
\* uint32_t and deserialize rejects the bytes
SubmitOps ==
    {FSOperation("CREATE_FILE", <<"g">>, <<>>),
     FSOperation("WRITE_FILE", <<"g">>, <<"x">>),
     Garbage}

NextSubmit ==
    \/ \E c \in Callers, op \in SubmitOps : SubmitCall(c, op)
    \/ \E c \in Callers : SubmitCheckLeader(c)
    \/ \E c \in Callers : SubmitRedirect(c)
    \/ \E c \in Callers : SubmitApply(c)
    \/ \E c \in Callers : SubmitWait(c)
    \/ \E task \in tasks : CommitTask(task)
    \/ \E task \in tasks : FailTask(task)
    \/ RaftElect
    \/ \E l \in Replicas \cup {NoPeer} : RaftStepDown(l)
    \/ \E l \in Replicas \cup {NoPeer} : RaftFollow(l)
    \/ \E term \in 1..MaxTerm : OnLeaderStart(term)
    \/ OnLeaderStartTerm
    \/ OnLeaderStop
    \/ \E r \in Replicas : OnApply(r)

SpecSubmit == Init /\ [][NextSubmit]_vars

NextRpc ==
    \/ \E frame \in Frames : PeerSend(frame)
    \/ HandlerReceive
    \/ HandlerDecodeError
    \/ HandlerUnknown
    \/ \E ok \in BOOLEAN : HandlerRead(ok)
    \/ \E leader \in Replicas \cup {NoPeer} : HandlerWrite(leader)
    \/ \E ok \in BOOLEAN : HandlerWriteDone(ok)
    \/ RoleChange

SpecRpc == Init /\ [][NextRpc]_vars

\* Calls that try the path guard: every operation on a path with a leading
\* '/', with a ".." component, with a NUL byte, longer than 4096 bytes, of
\* exactly 4096 bytes, and on plain paths
GuardPaths ==
    {<<"", "g">>, <<"d", "..", "g">>, <<NulName>>, <<Long4097>>, <<"d", Long4096>>,
     <<Long4096>>, <<"g">>, <<"d">>}
GuardOps ==
    {StoreOp(n, p, <<>>, <<>>) :
        n \in {"create_file", "create_directory", "read_file", "delete_file",
               "delete_directory", "list_directory"},
        p \in GuardPaths}
    \cup {StoreOp(n, p, <<>>, <<"x">>) : n \in {"write_file", "append_file"},
                                       p \in GuardPaths}
    \cup {StoreOp("rename", p, <<"h">>, <<>>) : p \in GuardPaths}
    \cup {StoreOp("rename", <<"g">>, p, <<>>) : p \in GuardPaths}

NextGuard == \E op \in GuardOps : StoreCall(op)

SpecGuard == Init /\ [][NextGuard]_vars

\* Calls on a small tree: a file g (also spelled "./g"), a directory d and
\* a file d/f, with the empty and a one-byte payload
StorePaths == {<<"g">>, <<".", "g">>, <<"d">>, <<"d", "f">>}
StoreOps ==
    {StoreOp(n, p, <<>>, <<>>) :
        n \in {"create_file", "create_directory", "read_file", "delete_file",
               "delete_directory", "list_directory"},
        p \in StorePaths}
    \cup {StoreOp(n, p, <<>>, b) : n \in {"write_file", "append_file"},
                                 p \in StorePaths, b \in {<<>>, <<"x">>}}
    \cup {StoreOp("rename", p, q, <<>>) : p \in StorePaths, q \in StorePaths}

NextStore ==
    \/ \E op \in StoreOps : StoreCall(op)
    \/ Tick

SpecStore == Init /\ [][NextStore]_vars

\* Operations to encode: every kind, paths "", "g", "d/f", data of 0, 1, 2
\* and 258 bytes
WirePaths == {<<>>, <<103>>, <<100, 47, 102>>}
WireData == {<<>>, <<120>>, <<0, 255>>, [i \in 1..258 |-> 120], <<100>>}
WireOps == {WireOp(t, p, d) : t \in 1..7, p \in WirePaths, d \in WireData}

\* Entries that are not an encoding: too short, a path_len or a data_len
\* past the end, no room for data_len, bytes after the data, a type byte
\* that is no FSOperationType
WireBytes ==
    {<<>>, <<1>>, <<1, 0, 0, 0, 0, 0, 0, 0>>,
     <<1, 5, 0, 0, 0, 103, 0, 0, 0, 0>>,
     <<1, 255, 255, 255, 255, 103, 0, 0, 0, 0>>,
     <<2, 1, 0, 0, 0, 103, 2, 0, 0, 0, 120>>,
     <<1, 2, 0, 0, 0, 103, 103, 0, 0, 0>>,
     <<2, 1, 0, 0, 0, 103, 1, 0, 0, 0, 120, 120>>,
     <<9, 1, 0, 0, 0, 103, 0, 0, 0, 0>>,
     <<0, 1, 0, 0, 0, 103, 1, 0, 0, 0, 120>>}

NextCodec ==
    \/ \E op \in WireOps : Serialize(op)
    \/ \E bytes \in WireBytes : Arrive(bytes)
    \/ ApplyBytes

SpecCodec == Init /\ [][NextCodec]_vars

\* Entries that build the trees to snapshot and to load over
SnapEntries ==
    {FSOperation("CREATE_DIR", <<"d">>, <<>>),
     FSOperation("WRITE_FILE", <<"d", "f">>, <<"x">>),
     FSOperation("WRITE_FILE", <<"g">>, <<"y">>),
     FSOperation("CREATE_FILE", <<".h">>, <<>>)}

NextSnapshot ==
    \/ \E data \in SnapEntries : Commit(data)
    \/ \E r \in Replicas : OnApply(r)
    \/ \E r \in Replicas : OnSnapshotSave(r)
    \/ \E r \in Replicas : OnSnapshotLoad(r)

SpecSnapshot == Init /\ [][NextSnapshot]_vars

\* Calls that build file contents: writes and appends of nothing, of one
\* byte and of MAX_FILE_SIZE bytes, and reads
ContentPaths == {<<"g">>, <<"d", "f">>}
ContentOps ==
    {StoreOp(n, p, <<>>, b) : n \in {"write_file", "append_file"}, p \in ContentPaths,
                             b \in {<<>>, <<"x">>, <<"y">>, <<Big>>}}
    \cup {StoreOp("read_file", p, <<>>, <<>>) : p \in ContentPaths}
    \cup {StoreOp("create_directory", <<"d">>, <<>>, <<>>),
          StoreOp("delete_file", <<"g">>, <<>>, <<>>)}

NextContent == \E op \in ContentOps : StoreCall(op)

SpecContent == Init /\ [][NextContent]_vars

NextShutdown ==
    \/ \E t \in ConnThreads :
          \/ AcceptConnection(t)
          \/ WriteRequest(t)
          \/ ClosureRun(t)
          \/ SendResponse(t)
          \/ ReceiveFails(t)
    \/ AcceptExit
    \/ Stop_flag
    \/ Stop_close_socket
    \/ Stop_join_accept
    \/ Stop_cleanup_connections
    \/ Stop_join_connections
    \/ StateMachine_shutdown

SpecShutdown == Init /\ [][NextShutdown]_vars

NextLockDir ==
    \/ \E t \in Threads, op \in StorageOps \cup DirectoryOps : StorageCall(t, op)
    \/ \E t \in Threads : AcquireRead(t)
    \/ \E t \in Threads : AcquireWrite(t)
    \/ \E t \in Threads : AcquireNew(t)
    \/ \E t \in Threads : ReleaseNew(t)
    \/ \E t \in Threads : Release(t)

SpecLockDir == Init /\ [][NextLockDir]_vars

\* Calls with the empty path, which resolve_path maps to base_path_ itself,
\* next to calls on a file g and a directory d
RootPaths == {<<>>, <<"g">>, <<"d">>}
RootOps ==
    {StoreOp(n, p, <<>>, <<>>) :
        n \in {"create_file", "create_directory", "read_file", "delete_file",
               "delete_directory", "list_directory"},
        p \in RootPaths}
    \cup {StoreOp(n, p, <<>>, <<"x">>) : n \in {"write_file", "append_file"},
                                       p \in RootPaths}
    \cup {StoreOp("rename", p, q, <<>>) : p \in RootPaths, q \in RootPaths}

NextRoot == \E op \in RootOps : StoreCall(op)

SpecRoot == Init /\ [][NextRoot]_vars

\* The role cache under every callback of the state machine: elections and
\* step-downs, advisory callbacks, and entries committed and applied
NextRole ==
    \/ RaftElect
    \/ \E l \in Replicas \cup {NoPeer} : RaftStepDown(l)
    \/ \E cb \in Advisory : RaftNotify(cb)
    \/ \E term \in 1..MaxTerm : OnLeaderStart(term)
    \/ OnLeaderStartTerm
    \/ OnLeaderStop
    \/ OnAdvisory
    \/ Commit(FSOperation("CREATE_FILE", <<"g">>, <<>>))
    \/ OnApply(ThisNode)

SpecRole == Init /\ [][NextRole]_vars

NextHandshake ==
    \/ \E c \in Callers : HsApply(c)
    \/ \E c \in Callers : HsWaitEnter(c)
    \/ \E c \in Callers : HsSpurious(c)
    \/ \E c \in Callers : HsRecheck(c)
    \/ \E c \in Callers : HsRead(c)
    \/ \E c \in Callers, status \in HsStatuses : HsOnApplyWrite(c, status)
    \/ \E c \in Callers : HsGuard(c)
    \/ \E c \in Callers : HsRun(c)

SpecHandshake == Init /\ [][NextHandshake]_vars

\* Two spellings of one file, "a/b" and "a//b", and a second file: reads
\* and writes through each.  The lock is taken on the string the caller
\* passed, the system calls go to resolve_path of it.
SpellingPaths == {<<"a", "b">>, <<"a", "", "b">>, <<"c">>}
SpellingOps ==
    {StorageOp(n, p, p) : n \in {"read_file", "write_file"}, p \in SpellingPaths}

NextSpelling ==
    \/ \E t \in Threads, op \in SpellingOps : StorageCall(t, op)
    \/ \E t \in Threads : AcquireRead(t)
    \/ \E t \in Threads : AcquireWrite(t)
    \/ \E t \in Threads : Release(t)

SpecSpelling == Init /\ [][NextSpelling]_vars

NextSocket ==
    \/ \E k \in ConnThreads : TcAccept(k)
    \/ \E k \in ConnThreads : TcReceive(k)
    \/ \E k \in ConnThreads : TcReceiveFails(k)
    \/ \E k \in ConnThreads : TcFrameRefused(k)
    \/ \E k \in ConnThreads, ok \in BOOLEAN : TcSend(k, ok)
    \/ \E k \in ConnThreads : TcHandlerClose(k)
    \/ \E k \in ConnThreads : TcCleanup(k)
    \/ \E k \in ConnThreads : TcDestroy(k)

SpecSocket == Init /\ [][NextSocket]_vars

\* Readers and writers of single paths, under a fair scheduler.  Every
\* thread that can take its lock, or is in the body of its operation, is
\* eventually run (weak fairness); a writer the lock is free for again and
\* again is eventually the one that gets it (strong fairness), which is more
\* than cv_.notify_all() and the race for mutex_ promise.  Calling an
\* operation is up to the threads and is not forced.
FairOps ==
    {StorageOp(n, p, p) : n \in {"read_file", "write_file"}, p \in LockPaths}
NextLockFair ==
    \/ \E t \in Threads, op \in FairOps : StorageCall(t, op)
    \/ \E t \in Threads : AcquireRead(t)
    \/ \E t \in Threads : AcquireWrite(t)
    \/ \E t \in Threads : Release(t)

SpecLockFair ==
    /\ Init /\ [][NextLockFair]_vars
    /\ \A t \in Threads :
          /\ WF_vars(AcquireRead(t))
          /\ SF_vars(AcquireWrite(t))
          /\ WF_vars(Release(t))

NextWatch ==
    \/ \E event \in InotifyEvents : WatchLoopRead(event)
    \/ HandleEvent
    \/ HandleEventRemoveWatch
    \/ \E cookie \in Cookies : WatchSweep(cookie)

SpecWatch == Init /\ [][NextWatch]_vars

NextLock ==
    \/ \E t \in Threads, op \in StorageOps : StorageCall(t, op)
    \/ \E t \in Threads : AcquireRead(t)
    \/ \E t \in Threads : AcquireWrite(t)
    \/ \E t \in Threads : AcquireNew(t)
    \/ \E t \in Threads : ReleaseNew(t)
    \/ \E t \in Threads : Release(t)

SpecLock == Init /\ [][NextLock]_vars


---------------------------------------------------------------------------
(* The claims *)

\* C1: apply is deterministic.  Two freshly initialised stores that have
\* applied the same sequence of log entries through on_apply hold identical
\* trees (same paths, kinds and bytes) and computed the same result status
\* for every entry.
C1_ApplyDeterministic ==
    \A r, q \in Replicas :
        applied[r] = applied[q] =>
            /\ Tree(fs[r], r) = Tree(fs[q], q)
            /\ results[r] = results[q]

\* C2: two replicas that have applied the same log prefix return equal
\* results from read_file, list_directory, stat and exists for every path,
\* stat being the whole FileInfo {name, size, is_directory, last_modified}.
C2_ReadsAgree ==
    \A r, q \in Replicas :
        applied[r] = applied[q] =>
            \A rop \in ReadOps, path \in ReadPaths :
                LocalRead(fs[r], r, rop, path) = LocalRead(fs[q], q, rop, path)

\* C3: when the cached is_leader is false, submit returns a failure without
\* handing a task to Raft and without changing the store: NotLeader carrying
\* the leader's address when one is known, NoLeaderAvailable when the leader
\* id is empty.
C3_NotLeaderRejects ==
    [][\A c \in Callers :
        /\ (spc[c] = "check" /\ spc'[c] # "check" /\ ~is_leader_)
              => spc'[c] = "redirect"
        /\ (spc[c] = "redirect" /\ spc'[c] # "redirect")
              => /\ spc'[c] = "done"
                 /\ ~sret'[c].tasked
                 /\ sret'[c].status =
                       IF raftLeader = NoPeer THEN "NO_LEADER" ELSE "NOT_LEADER"
                 /\ raftLeader # NoPeer => sret'[c].leader = raftLeader
        /\ (spc[c] \in {"check", "redirect"} /\ spc'[c] # spc[c] /\ spc'[c] # "apply")
              => /\ tasks' = tasks
                 /\ log' = log
                 /\ fs' = fs
                 /\ closure' = closure]_vars

\* C3's case: a caller was turned away with NotLeader and the leader's address
C3_Witness ==
    \E c \in Callers :
        /\ spc[c] = "done"
        /\ sret[c].status = "NOT_LEADER"
        /\ sret[c].leader = "r2"
        /\ ~sret[c].tasked

\* C4: if Raft completes a task with a non-OK status without the entry
\* reaching on_apply, submit returns a failure; submit returns Ok only for a
\* command that on_apply committed and applied on this node.
C4_OkOnlyIfApplied ==
    \A c \in Callers :
        (spc[c] = "done" /\ sret[c].status = "OK") => closure[c].reached

\* C5: whenever submit returns Ok on the leader, the effect of the command
\* is already visible in the leader's store when submit returns (and becomes
\* visible on every replica): the entry is in the log, within what this node
\* has applied.
C5_OkVisibleOnLeader ==
    \A c \in Callers :
        (spc[c] = "done" /\ sret[c].status = "OK") =>
            \E i \in 1..applied[ThisNode] : log[i].done = c

\* C6: reads are linearizable: a node serves a read only once it has applied
\* every entry committed before the read (followers check their commit index
\* before serving).
C6_ReadsSeeCommitted ==
    rd.node # NoPeer => rd.seen = rd.committed

\* C7: the RPC front door routes by kind.  The seven write kinds go to the
\* submit path and the connection thread never executes them against the
\* store; the read kinds are answered from the local store, never create a
\* Raft task, and are served whatever the role of the node.
C7_RoutesByKind ==
    \A i \in 1..Len(calls) :
        LET k == calls[i] IN
        /\ k.type \in WriteTypes =>
              k.route = "process_write_request" /\ k.store = "none"
        /\ k.type \in ReadTypes =>
              /\ k.route \in {"process_read_request", "process_list_request"}
              /\ ~k.task
              /\ k.store = "read"
        /\ k.task => k.type \in WriteTypes /\ k.leader

\* C7's case: a read answered from the store while not leader, and a write
\* handed to Raft, on one connection
C7_Witness ==
    /\ \E i \in 1..Len(calls) :
          calls[i].type \in ReadTypes /\ ~calls[i].leader /\ calls[i].store = "read"
    /\ \E i \in 1..Len(calls) : calls[i].type \in WriteTypes /\ calls[i].task

\* C8: on a connection, every completely received request frame gets exactly
\* one response frame on every branch (unknown type and exceptions
\* included), and response n is written before request n+1 is read.
C8_OneResponsePerRequest ==
    /\ Len(outbox) = IF hpc \in {"dispatch", "wait"} THEN nread - 1 ELSE nread
    /\ \A i \in 1..Len(outbox) : outbox[i].req = i

\* C9: FileLocker mutual exclusion.  For every path, either nobody holds it
\* (no entry), or exactly one writer holds it and reader_count is 0, or at
\* least one reader holds it and it is not write-locked; lock_write returns
\* only when reader_count = 0 and not write_locked, lock_read only when not
\* write_locked.
C9_MutualExclusion ==
    /\ [](\A p \in LockPaths :
            LET W == {t \in Threads : <<p, "w">> \in held[t]}
                R == {t \in Threads : <<p, "r">> \in held[t]}
            IN IF p \notin DOMAIN locks_ THEN W = {} /\ R = {}
               ELSE \/ /\ locks_[p].write_locked
                       /\ locks_[p].reader_count = 0
                       /\ Cardinality(W) = 1
                       /\ R = {}
                    \/ /\ ~locks_[p].write_locked
                       /\ locks_[p].reader_count >= 1
                       /\ Cardinality(R) = locks_[p].reader_count
                       /\ W = {})
    /\ [][\A t \in Threads, p \in LockPaths :
            /\ (<<p, "w">> \in held'[t] \ held[t]) =>
                  \/ p \notin DOMAIN locks_
                  \/ locks_[p].reader_count = 0 /\ ~locks_[p].write_locked
            /\ (<<p, "r">> \in held'[t] \ held[t]) =>
                  \/ p \notin DOMAIN locks_
                  \/ ~locks_[p].write_locked]_vars

\* C9's case: two readers share a path while a writer of that path waits
C9_Witness ==
    \E t, u, w \in Threads :
        /\ t # u
        /\ <<"a", "r">> \in held[t]
        /\ <<"a", "r">> \in held[u]
        /\ tpc[w] = "lock" /\ top[w].name = "write_file" /\ top[w].path = "a"
        /\ locks_["a"].reader_count = 2

\* C10: rename(a, b) takes its two write locks in lexicographic order, so
\* rename(a, b) running with rename(b, a) cannot deadlock: there is no state
\* in which each holds one of the two paths and waits for the other.
C10_RenameNoDeadlock ==
    ~ \E t, u \in Threads :
        /\ t # u
        /\ tpc[t] = "lock_new" /\ tpc[u] = "lock_new"
        /\ top[t].path # top[t].new_path
        /\ top[u].path = top[t].new_path /\ top[u].new_path = top[t].path
        /\ <<top[t].path, "w">> \in held[t]
        /\ <<top[u].path, "w">> \in held[u]

\* C11: for every Storage operation and every input path with a leading
\* '/', a component equal to "..", an embedded NUL byte, or more than 4096
\* bytes, the operation returns InvalidPath, takes no lock, issues no
\* filesystem call and leaves the tree unchanged; for rename this holds when
\* either of the two paths is invalid.
C11_InvalidPathRejected ==
    [][ncalls' = ncalls + 1 =>
        LET op == scall'.op
            Bad(p) == \/ p # <<>> /\ Head(p) = ""
                      \/ \E i \in 1..Len(p) : p[i] = ".."
                      \/ \E i \in 1..Len(p) : p[i] = NulName
                      \/ PathLength(p) > 4096
        IN (Bad(op.path) \/ (op.name = "rename" /\ Bad(op.new_path))) =>
              /\ scall'.code = "InvalidPath"
              /\ scall'.locks = <<>>
              /\ scall'.syscalls = <<>>
              /\ sfs' = sfs]_vars

\* C11's case: a rename whose old path is fine and exists and whose new path
\* has a ".." component was rejected
C11_Witness ==
    /\ scall.op.name = "rename"
    /\ scall.op.path = <<"g">>
    /\ scall.op.new_path = <<"d", "..", "g">>
    /\ scall.code = "InvalidPath"
    /\ StoreBase \o <<"g">> \in DOMAIN sfs

\* C12: no operation of the store touches a path outside its base
\* directory: on every replica's host, everything that exists is the root,
\* the base directory, or something under the base directory.
C12_NothingOutsideBase ==
    \A r \in Replicas : \A q \in DOMAIN fs[r] :
        q = <<>> \/ IsPrefix(base_path_(r), q)

\* C13: create_file, create_directory, delete_file and delete_directory are
\* idempotent: calling one of them a second time with the same path leaves
\* the tree the first call left, and returns success whenever the first
\* call did.
C13_CreateDeleteIdempotent ==
    [][(/\ ncalls' = ncalls + 1
        /\ scall'.op = scall.op
        /\ scall.op.name \in {"create_file", "create_directory", "delete_file",
                              "delete_directory"})
       => /\ sfs' = sfs
          /\ scall.code = "Success" => scall'.code = "Success"]_vars

\* C13's case: create_file("g") was called twice in a row, the second call
\* found the file and returned success
C13_Witness ==
    /\ scall.again
    /\ scall.op.name = "create_file"
    /\ scall.op.path = <<"g">>
    /\ scall.code = "Success"
    /\ IsFile(sfs, StoreBase \o <<"g">>)

\* C14: for every operation with one of the seven kinds, deserialize of its
\* serialize succeeds and returns the same kind, path bytes and data bytes;
\* the encoding has 1 + 4 + |path| + 4 + |data| bytes, with both lengths
\* written little-endian; an empty data is written as length 0 and read
\* back as empty.
C14_EncodingRoundTrip ==
    (wire.stage # "idle" /\ wire.op # NoWireOp) =>
        LET b == wire.bytes
            np == Len(wire.op.path)
            d == FSOperation_deserialize(b)
        IN /\ d.has_value
           /\ d.value.type = wire.op.type
           /\ d.value.path = wire.op.path
           /\ d.value.data = wire.op.data
           /\ Len(b) = 1 + 4 + np + 4 + Len(wire.op.data)
           /\ b[2] + 256 * b[3] + 65536 * b[4] + 16777216 * b[5] = np
           /\ b[np + 6] + 256 * b[np + 7] + 65536 * b[np + 8] + 16777216 * b[np + 9]
                 = Len(wire.op.data)
           /\ wire.stage = "applied" => wire.dec = d

\* C14's case: an APPEND_FILE of "d/f" with 258 bytes of data was encoded
\* and on_apply decoded it to the same operation
C14_Witness ==
    /\ wire.stage = "applied"
    /\ wire.op = WireOp(3, <<100, 47, 102>>, [i \in 1..258 |-> 120])
    /\ wire.dec.has_value
    /\ wire.dec.value = wire.op

\* C15: decoding is strict: for every entry whose bytes are fewer than 9,
\* whose path_len or data_len runs past the end, that has bytes left after
\* the data, or whose type byte is none of the seven kinds, deserialize
\* fails, the store is not modified, and on_apply reports SerializationError
\* for the entry.
C15_StrictDecode ==
    LET b == wire.bytes
        n == Len(b)
        Encoding ==
            /\ n >= 9
            /\ b[1] \in 1..7
            /\ b[4] = 0 /\ b[5] = 0
            /\ LET pl == b[2] + 256 * b[3] IN
               /\ 9 + pl <= n
               /\ b[pl + 8] = 0 /\ b[pl + 9] = 0
               /\ 9 + pl + b[pl + 6] + 256 * b[pl + 7] = n
    IN (wire.stage = "applied" /\ ~Encoding) =>
          /\ ~wire.dec.has_value
          /\ fs[ThisNode] = wire.pre
          /\ wire.status = "SerializationError"

\* C16: an entry that fails to decode does not halt apply.  The step of
\* on_apply that meets it leaves the store as it was and releases the
\* entry's waiter, if there is one, with a failure; a released waiter is
\* never touched again; and whenever a replica has entries left to apply,
\* after an undecodable one as after any other, on_apply can take the next
\* one in log order.
C16_UndecodableSkipped ==
    /\ [](\A r \in Replicas :
            (applied[r] < Len(log) /\ (r = ThisNode => fsm = FsmIdle))
                => ENABLED OnApply(r))
    /\ [][\A r \in Replicas :
            (applied'[r] = applied[r] + 1 /\ log[applied[r] + 1].data = Garbage) =>
                LET c == log[applied[r] + 1].done IN
                /\ fs'[r] = fs[r]
                /\ results'[r] = Append(results[r], "RAFT_ERROR")
                /\ (r = ThisNode /\ c # NoClosure) =>
                      /\ ~closure[c].done
                      /\ closure'[c].done
                      /\ closure'[c].result_status # "OK"]_vars
    /\ [][\A c \in Callers : closure[c].done => closure'[c] = closure[c]]_vars

\* C16's case: the first entry of the log did not decode and its waiter was
\* released with RAFT_ERROR; the entry after it was applied and created g
C16_Witness ==
    /\ Len(log) = 2
    /\ log[1] = [data |-> Garbage, done |-> "c1"]
    /\ log[2].data = FSOperation("CREATE_FILE", <<"g">>, <<>>)
    /\ applied[ThisNode] = 2
    /\ closure["c1"].done
    /\ closure["c1"].result_status = "RAFT_ERROR"
    /\ results[ThisNode] = <<"RAFT_ERROR", "OK">>
    /\ IsFile(fs[ThisNode], base_path_(ThisNode) \o <<"g">>)

\* C17: a snapshot saved when the store held tree T and then loaded into a
\* store holding any tree loads successfully and leaves the live subtree
\* equal to T: every path of T with its kind and bytes, and nothing else.
C17_SnapshotRoundTrip ==
    snap.rc # "none" => (snap.rc = "0" /\ snap.after = snap.T)

\* C18 as stated: after every run of successful write_file and append_file
\* calls on a path p, read_file(p) returns the bytes of the last write_file
\* followed by the payloads of the later append_file calls in call order
\* (all appends if there was no write).
C18_ContentAfterWrites ==
    wa.live =>
        LET r == Storage_read_file(sfs, wa.path) IN
        r.code = "Success" /\ r.data = wa.bytes

\* C18, amended: after such a run p is a file that holds those bytes;
\* read_file(p) returns them when they are at most MAX_FILE_SIZE bytes, and
\* IoError and no data when they are more.  A successful write_file with an
\* empty payload leaves p a file of size 0, a successful append_file with
\* an empty payload leaves what p held, or creates p empty.
C18_ContentUpToCap ==
    /\ [](wa.live =>
            LET r == Storage_read_file(sfs, wa.path)
                full == Resolve(sfs, <<>>, resolve_path(wa.path)).path
            IN /\ IsFile(sfs, full)
               /\ sfs[full].data = wa.bytes
               /\ IF ByteSize(wa.bytes) <= MAX_FILE_SIZE
                  THEN r.code = "Success" /\ r.data = wa.bytes
                  ELSE r.code = "IoError" /\ r.data = <<>>)
    /\ [][(/\ ncalls' = ncalls + 1
           /\ scall'.op.name \in {"write_file", "append_file"}
           /\ scall'.op.buffer = <<>>
           /\ scall'.code = "Success") =>
             LET full == StoreBase \o scall'.op.path IN
             /\ IsFile(sfs', full)
             /\ sfs'[full].data =
                   IF scall'.op.name = "append_file" /\ IsFile(sfs, full)
                   THEN sfs[full].data ELSE <<>>]_vars

\* C18's case: g was written, appended to, and read: read_file returned
\* the written byte followed by the appended one
C18_Witness ==
    /\ wa.live
    /\ wa.path = <<"g">>
    /\ wa.bytes = <<"x", "y">>
    /\ scall.op = StoreOp("read_file", <<"g">>, <<>>, <<>>)
    /\ scall.code = "Success"
    /\ scall.data = <<"x", "y">>

C20_DirectoryNotEmpty ==
    [][(ncalls' = ncalls + 1 /\ scall'.op.name = "delete_directory") =>
        LET rd_ == Resolve(sfs, <<>>, resolve_path(scall'.op.path)) IN
        (rd_.err = "OK" /\ IsDir(sfs, rd_.path) /\ Children(sfs, rd_.path) # {}) =>
            /\ scall'.code = "DirectoryNotEmpty"
            /\ sfs' = sfs]_vars

C22_FrameLengthCheck ==
    [][(hpc = "recv" /\ inbox # <<>> /\ inbox' = Tail(inbox)
          /\ Head(inbox).kind # "eof") =>
        LET frame == Head(inbox) IN
        IF msg_len(frame) > 104857600
        THEN hpc' = "closed" /\ outbox' = outbox /\ calls' = calls /\ nread' = nread
        ELSE hpc' = "dispatch" /\ cur' = frame /\ nread' = nread + 1]_vars

\* C23: when the body of a received frame cannot be decoded as a command,
\* the handler sends back one failure response and then closes the
\* connection: it reads no further request from it.
C23_DecodeFailureCloses ==
    [][(hpc = "dispatch" /\ cur.kind = "undecodable" /\ hpc' # hpc) =>
        /\ Len(outbox') = Len(outbox) + 1
        /\ ~outbox'[Len(outbox')].resp.success
        /\ hpc' = "closed"]_vars

\* C24: the submit path never mutates the local store.  Every step that
\* changes a store is an on_apply step applying the next committed entry of
\* one replica; no step of a submit call changes a store; and the operation
\* of a submit that was refused as not leader, or whose task Raft failed, is
\* not in the log.
C24_SubmitNeverMutates ==
    /\ [][fs' # fs =>
            \E r \in Replicas :
                /\ applied[r] < Len(log)
                /\ applied' = [applied EXCEPT ![r] = @ + 1]
                /\ fs' = [fs EXCEPT ![r] = ApplyEntry(@, r, log[applied[r] + 1], now).fs]]_vars
    /\ [][(spc' # spc \/ sret' # sret \/ tasks' # tasks) => fs' = fs]_vars
    /\ [](\A c \in Callers :
            (spc[c] = "done" /\ (~sret[c].tasked \/ closure[c].status # "OK")) =>
                \A i \in 1..Len(log) : log[i].done # c)

\* C24's case: the task of one caller was failed by Raft and its submit
\* returned, while the entry of the other caller was applied and created g
C24_Witness ==
    \E c, d \in Callers :
        /\ spc[c] = "done" /\ sret[c].tasked /\ closure[c].status = "EPERM"
        /\ \E i \in 1..applied[ThisNode] : log[i].done = d
        /\ IsFile(fs[ThisNode], base_path_(ThisNode) \o <<"g">>)

\* C25: shutdown runs in the order stop flag, listening socket closed,
\* accept thread joined, Raft node shut down, connection threads joined: each
\* step has happened only if the one before it has, and in particular the
\* connection threads are joined only after the Raft node was shut down.
C25_ShutdownOrder ==
    /\ server_fd_ = "closed" => should_stop_
    /\ accept_thread_ = "joined" => server_fd_ = "closed"
    /\ raft_node_ = "down" => accept_thread_ = "joined"
    /\ mainpc \in {"joined", "done"} => raft_node_ = "down"

\* C26: while a Storage operation performs its filesystem calls it holds
\* the lock of its path: read_file the read lock, rename the write locks of
\* both paths, every other operation (list_directory included) the write
\* lock; and no create_directory, delete_directory or list_directory on p
\* is in its filesystem calls while another thread holds the write lock of p.
C26_LocksHeldDuringCalls ==
    /\ \A t \in Threads :
          tpc[t] = "body" =>
              CASE top[t].name = "read_file" -> <<top[t].path, "r">> \in held[t]
                [] top[t].name = "rename" ->
                       /\ <<top[t].path, "w">> \in held[t]
                       /\ <<top[t].new_path, "w">> \in held[t]
                [] OTHER -> <<top[t].path, "w">> \in held[t]
    /\ \A t, u \in Threads :
          (t # u /\ tpc[t] = "body" /\ top[t].name \in Lockless) =>
              <<top[t].path, "w">> \notin held[u]

\* C27: a call of create_file, write_file, append_file, delete_file,
\* create_directory, delete_directory, rename or read_file whose path (or,
\* for rename, whose new path) normalises to the empty path returns
\* InvalidPath without any filesystem call, and the base directory is
\* always there.
C27_EmptyPathRejected ==
    /\ (/\ scall.op.name \notin {"none", "list_directory"}
        /\ \/ normalize_path(scall.op.path) = <<>>
           \/ scall.op.name = "rename" /\ normalize_path(scall.op.new_path) = <<>>)
       => (scall.code = "InvalidPath" /\ scall.syscalls = <<>>)
    /\ IsDir(sfs, StoreBase)

\* C28: a create succeeds on an existing entity only if it is of the same
\* kind.  create_file(p) on a p that is a directory returns IoError and
\* leaves p a directory; create_directory(p) on a p that is a regular file
\* does not return success and leaves p a file.
C28_CreateSameKindOnly ==
    [][ncalls' = ncalls + 1 =>
        LET p == resolve_path(scall'.op.path) IN
        /\ (scall'.op.name = "create_file" /\ IsDir(sfs, p)) =>
               (scall'.code = "IoError" /\ IsDir(sfs', p))
        /\ (scall'.op.name = "create_directory" /\ IsFile(sfs, p)) =>
               (scall'.code # "Success" /\ IsFile(sfs', p))]_vars

C30_ErrnoTable ==
    [][LET Table(err) ==
            CASE err = "OK"        -> "Success"
              [] err = "ENOENT"    -> "FileNotFound"
              [] err = "EEXIST"    -> "AlreadyExists"
              [] err = "ENOTDIR"   -> "NotDirectory"
              [] err = "ENOTEMPTY" -> "DirectoryNotEmpty"
              [] err = "EINVAL"    -> "InvalidPath"
              [] OTHER             -> "IoError"
        CodeOf(status) ==
            CASE status = "OK"                  -> "Success"
              [] status = "NOT_FOUND"           -> "FileNotFound"
              [] status = "ALREADY_EXISTS"      -> "AlreadyExists"
              [] status = "NOT_DIRECTORY"       -> "NotDirectory"
              [] status = "DIRECTORY_NOT_EMPTY" -> "DirectoryNotEmpty"
              [] status = "INVALID_PATH"        -> "InvalidPath"
              [] OTHER                          -> "IoError"
        Errno(f, op, t) ==
            CASE op.name = "create_file"      -> sys_open_excl(f, resolve_path(op.path), t).err
              [] op.name = "create_directory" -> sys_mkdir(f, resolve_path(op.path), t).err
              [] op.name = "delete_file"      -> sys_unlink(f, resolve_path(op.path), t).err
              [] op.name = "delete_directory" -> sys_rmdir(f, resolve_path(op.path), t).err
              [] OTHER -> sys_rename(f, resolve_path(op.path), resolve_path(op.new_path), t).err
    IN
    /\ (/\ ncalls' = ncalls + 1
        /\ scall'.op.name \in {"create_file", "create_directory", "delete_file",
                               "delete_directory", "rename"}
        /\ scall'.syscalls # <<>>
        /\ scall'.code # "Success")
       => scall'.code = Table(Errno(sfs, scall'.op, now))
    /\ \A err \in {"OK", "ENOENT", "EEXIST", "ENOTDIR", "ENOTEMPTY", "EINVAL",
                    "EISDIR", "ENAMETOOLONG", "EXDEV"} :
          CodeOf(errno_to_status(err)) = Table(err)]_vars

C32_TaskTermOfLeadership ==
    [][\A task \in tasks' \ tasks :
          /\ task.expected_term = checked[task.caller]
          /\ task.expected_term # -1]_vars

\* C33: the role cache.  is_leader_ is false and leader_term_ is -1 at the
\* start; is_leader_ becomes true only in on_leader_start and false only in
\* on_leader_stop; leader_term_ changes only in on_leader_start and never
\* decreases; the advisory callbacks and on_apply change neither.
C33_RoleCache ==
    /\ ~is_leader_ /\ leader_term_ = -1
    /\ [][/\ (is_leader_' /\ ~is_leader_) =>
                (fsm = FsmIdle /\ cbq # <<>> /\ Head(cbq).cb = "start" /\ cbq' = Tail(cbq))
          /\ (~is_leader_' /\ is_leader_) =>
                (fsm = FsmIdle /\ cbq # <<>> /\ Head(cbq).cb = "stop" /\ cbq' = Tail(cbq))
          /\ leader_term_' # leader_term_ =>
                (fsm.pc = "store_term" /\ fsm' = FsmIdle /\ leader_term_' > leader_term_)
          /\ ((cbq # <<>> /\ Head(cbq).cb \in Advisory /\ cbq' = Tail(cbq))
                 \/ applied' # applied) =>
                (is_leader_' = is_leader_ /\ leader_term_' = leader_term_)]_vars

\* C33's case: this node has led twice and stepped down again, and has
\* applied an entry: the cache holds the second term and is_leader_ is false
C33_Witness ==
    /\ ~is_leader_
    /\ leader_term_ = 2
    /\ applied[ThisNode] > 0
    /\ cbq # <<>> /\ Head(cbq).cb \in Advisory

\* C34: lock table hygiene.  Every entry of FileLocker::locks_ has
\* reader_count > 0 or write_locked; a thread that is in no Storage
\* operation holds no lock; and when no Storage operation is in progress
\* the map is empty.
C34_LockTableHygiene ==
    /\ \A p \in DOMAIN locks_ : locks_[p].reader_count > 0 \/ locks_[p].write_locked
    /\ \A t \in Threads : tpc[t] = "idle" => held[t] = {}
    /\ (\A t \in Threads : tpc[t] = "idle") => DOMAIN locks_ = {}

\* C34's case: a rename and two read_file calls have run to their end, no
\* operation is in progress and the map is empty
C34_Witness ==
    /\ \A t \in Threads : tpc[t] = "idle"
    /\ \E t, u, v \in Threads :
          /\ t # u /\ u # v /\ t # v
          /\ top[t].name = "rename" /\ top[t].path # top[t].new_path
          /\ top[u].name = "read_file" /\ top[v].name = "read_file"
          /\ top[u].path = top[v].path
    /\ DOMAIN locks_ = {}

\* C35: the completion handshake.  wait() has returned only if Run() was
\* invoked, and no waiter stays blocked once Run() was invoked, whether
\* Run() came before or after wait() was entered; Run() is invoked at most
\* once per task; the submitting thread reads result_status only after
\* wait() has returned and reads what on_apply wrote; on_apply writes the
\* field only before Run().
C35_CompletionHandshake ==
    /\ [](\A c \in Callers :
            /\ hwait[c] \in {"returned", "read"} => hcl[c].nrun = 1
            /\ hwait[c] = "blocked" => ~hcl[c].done
            /\ hcl[c].nrun <= 1
            /\ hcl[c].done <=> hcl[c].nrun = 1
            /\ hwait[c] = "read" => hret[c] = hcl[c].result_status)
    /\ [][\A c \in Callers :
            /\ hret'[c] # hret[c] => hwait[c] = "returned"
            /\ hcl'[c].result_status # hcl[c].result_status =>
                  (hcl[c].nrun = 0 /\ hcl'[c].nrun = 0 /\ hlib'[c] # "ran")]_vars

\* C35's case: caller c1 has returned from wait() and read the status
\* on_apply wrote; caller c2 was blocked in wait(), Run() has run and woken it
C35_Witness ==
    /\ hwait["c1"] = "read" /\ hret["c1"] = "NOT_FOUND"
    /\ hwait["c2"] = "woken" /\ hcl["c2"].done /\ hcl["c2"].result_status = "RAFT_ERROR"

\* C36: a Storage operation that runs while no other operation is in
\* progress never waits: at each of its lock guards lock_read / lock_write
\* returns, so the operation runs to its end and releases its locks.  In
\* particular rename(p, p) does not wait for the lock it already holds.
C36_SoloOperationReturns ==
    \A t \in Threads :
        (tpc[t] # "idle" /\ \A u \in Threads \ {t} : tpc[u] = "idle") =>
            CASE tpc[t] = "lock" /\ top[t].name = "read_file" ->
                     lock_read(locks_, top[t].path).returns
              [] tpc[t] = "lock" /\ top[t].name # "read_file" ->
                     lock_write(locks_, top[t].path).returns
              [] tpc[t] = "lock_new" -> lock_write(locks_, top[t].new_path).returns
              [] OTHER -> TRUE

\* C37: mutual exclusion is per file, not per spelling.  Two threads that
\* are both past their lock guard, in operations whose paths resolve to the
\* same absolute path, are both readers: a write_file never runs together
\* with a read_file or a write_file on the same file.
C37_ExclusionPerFile ==
    \A t, u \in Threads :
        (/\ t # u
         /\ tpc[t] = "body" /\ tpc[u] = "body"
         /\ validate_path(top[t].path) = "Success"
         /\ validate_path(top[u].path) = "Success"
         /\ resolve_path(top[t].path) = resolve_path(top[u].path))
        => (top[t].name = "read_file" /\ top[u].name = "read_file")

\* C38: each accepted socket is closed exactly once.  Once the handler of
\* a connection has finished and close() has returned, the descriptor has
\* been closed and socket_fd_ is -1, whatever ended the connection; and no
\* descriptor is closed twice.
C38_SocketClosedOnce ==
    \A k \in ConnThreads :
        /\ tc[k].closes <= 1
        /\ tc[k].hpc \in {"closed", "destroyed"} =>
              (tc[k].socket_fd_ = -1 /\ tc[k].closes = 1)

\* C39: writer progress.  Under fair scheduling, with every holder of a
\* lock on p releasing it in the end, a thread blocked in lock_write(p)
\* eventually holds the write lock on p, even while other threads keep
\* taking and releasing read locks on p.
C39_WriterProgress ==
    \A t \in Threads :
        (tpc[t] = "lock" /\ top[t].name = "write_file")
            ~> (<<top[t].path, "w">> \in held[t])

\* C40: the watcher thread never blocks on its own mutex.  handleEvent
\* returns for every inotify event, and for IN_DELETE of a watched
\* subdirectory it takes the directory out of wd_to_path and path_to_wd and
\* then calls the callback with the DELETED event.
C40_WatcherNeverBlocks ==
    /\ [](wpc \in {"loop", "handleEvent"})
    /\ [][(/\ wpc = "handleEvent"
           /\ wev.mask = "IN_DELETE" /\ wev.is_dir /\ wev.name # ""
           /\ FullPath(wev) \in DOMAIN path_to_wd)
          => /\ wpc' = "loop"
             /\ FullPath(wev) \notin DOMAIN path_to_wd'
             /\ \A wd \in DOMAIN wd_to_path' : wd_to_path'[wd] # FullPath(wev)
             /\ delivered' = Event("DELETED", FullPath(wev), TRUE, <<>>)]_vars

=============================================================================
